---- MODULE Spec2Model ----
(***************************************************************************)
(* Quality-review and prompt-patching pipeline of the assistant            *)
(* (app/services/qa_reviewer.py, app/routers/internal.py).                 *)
(*                                                                         *)
(* The persistent state is the three tables quality_issues,                *)
(* qa_review_cycles and prompt_revisions, the versioned document store     *)
(* that holds one prompt per agent, and the wall clock.  Every running     *)
(* run_review / fix_single_issue coroutine is a task with its local        *)
(* variables and a position pc; one action is one stretch of code between  *)
(* two suspension points (await) of the coroutine.                         *)
(* Spec runs run_review and fix_single_issue one call at a time;           *)
(* SpecTriggers runs the asynchronous trigger endpoints and their          *)
(* background tasks, one request at a time.                                *)
(***************************************************************************)
EXTENDS Integers, Sequences, FiniteSets, TLC

\* ------------------------------------------------------------------ bounds
\* At most this many review-cycle rows are created in one behaviour.
MaxCycles == 2
\* The clock runs from StartTime to MaxTime hours, in steps of TickHours.
StartTime == 3
MaxTime == 27
TickHours == 24

\* ------------------------------------------------------- program constants
\* Settings.qa_review_max_improvements / _cooldown_hours / _min_issues
qa_review_max_improvements == 3
qa_review_cooldown_hours == 24
qa_review_min_issues == 2

\* known_agents of _extract_agents_from_proposals
known_agents == {"router", "finance", "calendar", "reminder", "shopping", "vehicle", "qa"}

Range(f) == {f[i] : i \in DOMAIN f}

\* ------------------------------------------------------------ input domains
\* The slots in which a coroutine runs.
Procs == {1, 2}
Tenants == {"t1", "t2", "t3"}
\* SQL NULL / Python None
NULL == "NULL"
\* The agents that own issue rows, in the order of their newest issue.
AgentOrder == <<"calendar", "finance", "router", "shopping">>
\* An agent that logs issues and is not among known_agents.
UnknownAgent == "subscription"
AgentNames == {AgentOrder[k] : k \in 1..Len(AgentOrder)} \cup {UnknownAgent}
\* What _get_active_tenant_ids may return: the active tenants in the order
\* of their creation.
ActiveTenantLists == {<<>>, <<"t3">>, <<"t2", "t3">>, <<"t1", "t2">>}
\* Settings.anthropic_api_key: not set (the default) or set.
ApiKeys == {"", "sk"}
\* days parameter of run_review (1..365), in days
Days == {1, 30}

\* (issue_category, severity) of one issue row
Plain == [issue_category |-> "misinterpretation", severity |-> "medium"]
Halluc == [issue_category |-> "hallucination", severity |-> "low"]
Crit == [issue_category |-> "incomplete_response", severity |-> "critical"]
\* The issue rows each agent of AgentOrder may own when the behaviour starts.
Profiles ==
    << {<<Plain>>, <<Plain, Plain>>, <<Halluc>>},
       {<<>>, <<Plain>>, <<Crit>>},
       {<<>>, <<Halluc>>},
       {<<>>, <<Halluc>>} >>

\* Lower-casing of the words that occur in generated text (str.lower()).
lower(w) ==
    CASE w = "Calendar" -> "calendar"
      [] w = "FINANCE" -> "finance"
      [] w = "True" -> "true"
      [] OTHER -> w

\* Substring test between two lower-case words ("x in y" on Python strings).
IsSubstring(x, y) ==
    \/ x = y
    \/ x = "calendar" /\ y = "calendario"

\* A text is a sequence of words; <<>> is the empty (or all-blank) text.
\* agent_name.lower() in proposals.lower()
Mentions(agent_name, proposals) ==
    \E k \in 1..Len(proposals) : IsSubstring(lower(agent_name), lower(proposals[k]))

\* str.strip(): drop the blank words at both ends of a text.
RECURSIVE lstrip(_)
lstrip(t) == IF t # <<>> /\ Head(t) = " " THEN lstrip(Tail(t)) ELSE t
RECURSIVE rstrip(_)
rstrip(t) == IF t # <<>> /\ t[Len(t)] = " " THEN rstrip(SubSeq(t, 1, Len(t) - 1)) ELSE t
strip(t) == rstrip(lstrip(t))

\* The text of a tag that does not occur in a response (re.search finds no match).
NoTag == <<NULL>>

\* Responses of the analysis generation call: the inner text of each tagged
\* section of the response.
AnalysisResponses ==
    { [automated_fixes |-> NoTag, summary |-> <<"ok">>],
      [automated_fixes |-> <<" ">>, summary |-> <<"ok">>],
      [automated_fixes |-> <<" ", "general", " ">>, summary |-> NoTag],
      [automated_fixes |-> <<"Calendar", "router">>, summary |-> <<"ok">>],
      [automated_fixes |-> <<"calendario">>, summary |-> <<"ok">>] }

\* Responses of the patch generation call: stop_reason and the inner text of
\* the tags.
PatchResponses ==
    [stop_reason : {"end_turn", "max_tokens"}, should_modify : {<<" ", "True">>},
     improved_prompt : {<<"new", "prompt">>}, confidence : {<<"0.8">>}]
    \cup
    [stop_reason : {"end_turn"}, should_modify : {NoTag, <<"false">>},
     improved_prompt : {<<"new", "prompt">>}, confidence : {<<"0.8">>}]
    \cup
    [stop_reason : {"end_turn"}, should_modify : {<<"true">>},
     improved_prompt : {NoTag, <<" ">>}, confidence : {<<"0.8">>}]
    \cup
    [stop_reason : {"end_turn"}, should_modify : {<<"true">>},
     improved_prompt : {<<"new", "prompt">>}, confidence : {NoTag, <<"alta">>}]

NoResponse == [stop_reason |-> NULL, should_modify |-> NoTag,
               improved_prompt |-> NoTag, confidence |-> NoTag]

\* ------------------------------------------------------------------- state
VARIABLES
    issues,     \* quality_issues: sequence of rows, the index is the id
    cycles,     \* qa_review_cycles: sequence of rows, the index is the id
    revisions,  \* prompt_revisions: sequence of rows, the index is the id
    docs,       \* document store: per agent, the commits made to its prompt,
                \* each named by the cycle that made it
    now,        \* wall clock, in hours
    task,       \* the coroutine run in each slot: locals and position
    _pending_expense_edits, \* quick_actions: per phone, its pending edit
    _rate_limit_store,      \* webhook: per phone, the times of its last messages
    time,       \* time.time(), in seconds
    message,    \* the process_message coroutine: its message, locals, position
    last_call   \* per phone, the last set or clear call made on the store

\* The tables and coroutines of the review pipeline, and the state of the
\* WhatsApp webhook.
pvars == <<issues, cycles, revisions, docs, now, task>>
wvars == <<_pending_expense_edits, _rate_limit_store, time, message, last_call>>
vars == <<issues, cycles, revisions, docs, now, task,
          _pending_expense_edits, _rate_limit_store, time, message, last_call>>

\* NULL in an integer column
NullCount == 0 - 1
NoId == 0

\* A quality_issues row as _persist_issue inserts it.
IssueRow(tenant_id, agent_name, shape, created_at) ==
    [tenant_id |-> tenant_id, agent_name |-> agent_name,
     issue_category |-> shape.issue_category, severity |-> shape.severity,
     created_at |-> created_at, is_resolved |-> FALSE,
     fix_status |-> NULL, fix_error |-> NULL, fix_result |-> NoId]

\* The rows of one tenant: for each agent of AgentOrder the rows of its
\* profile, newest first.
RECURSIVE RowsOf(_, _, _)
RowsOf(tenant_id, profile, k) ==
    IF k > Len(AgentOrder) THEN <<>>
    ELSE [j \in 1..Len(profile[k]) |->
            IssueRow(tenant_id, AgentOrder[k], profile[k][j], 0)]
         \o RowsOf(tenant_id, profile, k + 1)

\* Issue i was created i hours before the behaviour starts.
Dated(rows) == [i \in 1..Len(rows) |-> [rows[i] EXCEPT !.created_at = 0 - i]]

\* A row of qa_review_cycles right after its INSERT.
NewCycle(tenant_id, triggered_by) ==
    [tenant_id |-> tenant_id, triggered_by |-> triggered_by, status |-> "running",
     issues_analyzed_count |-> NullCount, improvements_applied_count |-> NullCount,
     analysis_result |-> NULL, error_message |-> NULL]

\* The tables are not empty when the behaviour starts: an earlier review of
\* tenant t1 has completed and has committed one revision, at hour 0.
HistoryCycle ==
    [NewCycle("t1", "cli") EXCEPT !.status = "completed",
                                  !.issues_analyzed_count = 2,
                                  !.improvements_applied_count = 1,
                                  !.analysis_result = "sections"]
HistoryRevision ==
    [review_cycle_id |-> 1, tenant_id |-> "t1", agent_name |-> AgentOrder[1],
     issues_addressed |-> <<>>, created_at |-> 0, is_rolled_back |-> FALSE]

IdleTask ==
    [kind |-> "idle", pc |-> "idle", tenant_id |-> NULL, issue_id |-> NoId,
     cycle_id |-> NoId, period_start |-> 0, issues |-> <<>>, proposals |-> <<>>,
     agents |-> <<>>, idx |-> 0, improvements_applied |-> 0, revisions |-> <<>>,
     agent_name |-> NULL, agent_issues |-> <<>>, current_prompt |-> 0,
     response |-> NoResponse, improved_prompt |-> <<>>, error |-> NULL,
     anthropic_api_key |-> NULL,
     \* the number of prompt_revisions rows the cooldown query of the attempt
     \* under way has read
     rows_seen |-> 0,
     \* of a request to a trigger endpoint and of its background task
     reply |-> NULL, caller |-> NULL, tenant_ids |-> <<>>, days |-> 0,
     i |-> 0, cycles_before |-> 0, log |-> <<>>]

\* --------------------------------------------------------- WhatsApp webhook
Phones == {"5491111111111", "5491122222222"}
ExpenseIds == {"expense-42", "expense-7"}

\* time.time() advances TickSeconds at a time, up to MaxSeconds.
TickSeconds == 300
MaxSeconds == 900

\* settings.max_messages_per_minute, set low.
max_messages_per_minute == 1

_DEFAULT_TTL_SECONDS == 10 * 60

\* The ttl_seconds arguments callers pass.
TtlSeconds == {60, _DEFAULT_TTL_SECONDS}

PendingExpenseEdit(expense_id, expires_at) ==
    [expense_id |-> expense_id, expires_at |-> expires_at]

\* A phone without an entry in the dict.
NoEdit == PendingExpenseEdit(NULL, 0)

\* A phone the backend does not know (resolve returns None).
NoPhoneInfo ==
    [tenant_id |-> NULL, onboarding_completed |-> FALSE, can_interact_agent |-> FALSE]

PhoneTenantInfo(tenant_id, onboarding_completed, can_interact_agent) ==
    [tenant_id |-> tenant_id, onboarding_completed |-> onboarding_completed,
     can_interact_agent |-> can_interact_agent]

\* What the backend answers for a phone.
PhoneInfos ==
    {NoPhoneInfo} \cup {PhoneTenantInfo("t1", o, c) : o \in BOOLEAN, c \in BOOLEAN}

\* The router's result, as far as process_message reads it: the tool named
\* in its metadata and whether the tool's result says success.
NoResult == [tool |-> NULL, success |-> FALSE]
RouterResults ==
    {NoResult, [tool |-> "modificar_gasto", success |-> TRUE],
     [tool |-> "modificar_gasto", success |-> FALSE],
     [tool |-> "eliminar_gasto", success |-> TRUE],
     [tool |-> "registrar_gasto", success |-> TRUE]}

\* process_message before its first call and between calls.
NoMessage ==
    [pc |-> "idle", phone |-> NULL, text |-> NULL, is_audio |-> FALSE,
     is_interactive |-> FALSE, interactive_id |-> <<>>,
     pending_edit |-> NULL, phone_info |-> NoPhoneInfo, tenant_id |-> NULL,
     router_called |-> FALSE, result |-> NoResult]

\* The process has started and no message has arrived yet.
NoMessages ==
    /\ _pending_expense_edits = [phone \in Phones |-> NoEdit]
    /\ _rate_limit_store = [phone \in Phones |-> <<>>]
    /\ time = 0
    /\ message = NoMessage
    /\ last_call = [phone \in Phones |-> [op |-> NULL, expense_id |-> NULL,
                                          ttl_seconds |-> 0, at |-> 0]]

Init ==
    /\ \E profile \in [1..Len(AgentOrder) -> UNION Range(Profiles)] :
          /\ \A k \in 1..Len(AgentOrder) : profile[k] \in Profiles[k]
          /\ issues = Dated(RowsOf("t1", profile, 1)
                            \o <<IssueRow("t1", NULL, Plain, 0)>>
                            \o <<IssueRow("t2", "calendar", Halluc, 0)>>
                            \o <<IssueRow("t3", UnknownAgent, Halluc, 0)>>)
    /\ cycles = <<HistoryCycle>>
    /\ revisions = <<HistoryRevision>>
    /\ docs = [a \in AgentNames |-> IF a = HistoryRevision.agent_name THEN <<1>> ELSE <<>>]
    /\ now = StartTime
    /\ task = [p \in Procs |-> IdleTask]
    /\ NoMessages

\* ----------------------------------------------------------------- helpers
\* ORDER BY created_at DESC over a set of issue ids
RECURSIVE OrderByCreatedDesc(_)
OrderByCreatedDesc(S) ==
    IF S = {} THEN <<>>
    ELSE LET first == CHOOSE i \in S : \A j \in S : issues[i].created_at >= issues[j].created_at
         IN <<first>> \o OrderByCreatedDesc(S \ {first})

_fetch_unresolved_issues(tenant_id, since) ==
    OrderByCreatedDesc({i \in DOMAIN issues :
        /\ issues[i].tenant_id = tenant_id
        /\ issues[i].is_resolved = FALSE
        /\ issues[i].created_at >= since})

\* Mutant: the sections are stored as they are found, not stripped.
_parse_xml_response_NoStrip(response) ==
    [tag \in DOMAIN response |-> response[tag]]

\* _parse_xml_response: the sections found, each stripped; a section that
\* is absent stays absent.
_parse_xml_response(response) ==
    [tag \in DOMAIN response |->
        IF response[tag] = NoTag THEN NoTag ELSE strip(response[tag])]

\* parsed_analysis.get("automated_fixes", "")
ProposalsOf(parsed_analysis) ==
    IF parsed_analysis.automated_fixes = NoTag THEN <<>> ELSE parsed_analysis.automated_fixes

\* The keys of by_agent, in insertion order: the known agents of the issues
\* in the order of their first issue.
RECURSIVE by_agent(_, _)
by_agent(issue_ids, seen) ==
    IF issue_ids = <<>> THEN <<>>
    ELSE LET agent == issues[Head(issue_ids)].agent_name
         IN IF agent # NULL /\ agent \in known_agents /\ agent \notin seen
            THEN <<agent>> \o by_agent(Tail(issue_ids), seen \cup {agent})
            ELSE by_agent(Tail(issue_ids), seen)

\* The issues of one agent among issue_ids (the value of by_agent[agent]).
IssuesOfAgent(issue_ids, agent_name) ==
    SelectSeq(issue_ids, LAMBDA i : issues[i].agent_name = agent_name)

\* Mutant: without the fallback to all agents that have issues.
_extract_agents_from_proposals_NoFallback(proposals, issue_ids) ==
    SelectSeq(by_agent(issue_ids, {}), LAMBDA a : Mentions(a, proposals))

_extract_agents_from_proposals(proposals, issue_ids) ==
    LET groups == by_agent(issue_ids, {})
        result == SelectSeq(groups, LAMBDA a : Mentions(a, proposals))
    IN IF result = <<>> /\ groups # <<>> THEN groups ELSE result

\* Mutant: the window is taken in minutes instead of hours, which on this
\* clock is no window at all.
_is_on_cooldown_Minutes(tenant_id, agent_name) ==
    LET cooldown_since == now
    IN \E r \in DOMAIN revisions :
          /\ revisions[r].tenant_id = tenant_id
          /\ revisions[r].agent_name = agent_name
          /\ revisions[r].created_at >= cooldown_since
          /\ revisions[r].is_rolled_back = FALSE

_is_on_cooldown(tenant_id, agent_name) ==
    LET cooldown_since == now - qa_review_cooldown_hours
    IN \E r \in DOMAIN revisions :
          /\ revisions[r].tenant_id = tenant_id
          /\ revisions[r].agent_name = agent_name
          /\ revisions[r].created_at >= cooldown_since
          /\ revisions[r].is_rolled_back = FALSE

\* Mutant: the override looks at the category only.
has_critical_CategoryOnly(agent_issues) ==
    \E k \in DOMAIN agent_issues :
        issues[agent_issues[k]].issue_category = "hallucination"

has_critical(agent_issues) ==
    \E k \in DOMAIN agent_issues :
        \/ issues[agent_issues[k]].issue_category = "hallucination"
        \/ issues[agent_issues[k]].severity = "critical"

\* Mutant: the budget test is off by one.
MaxImprovementsReached_OffByOne(improvements_applied) ==
    improvements_applied > qa_review_max_improvements

\* The budget test at the head of the candidate loop.
MaxImprovementsReached(improvements_applied) ==
    improvements_applied >= qa_review_max_improvements

\* Mutant: the "not" of the override is lost.
NotEnoughIssues_LostNot(agent_issues) ==
    Len(agent_issues) < qa_review_min_issues /\ has_critical(agent_issues)

\* The minimum-issues test of the candidate loop.
NotEnoughIssues(agent_issues) ==
    Len(agent_issues) < qa_review_min_issues /\ ~has_critical(agent_issues)

\* float(text) succeeds
IsFloat(text) == strip(text) = <<"0.8">>

\* Mutant: a response without the should_modify tag counts as a request to
\* modify.
_parse_improvement_xml_DefaultTrue(content) ==
    IF content.should_modify = NoTag
    THEN [none |-> FALSE, should_modify |-> TRUE,
          improved_prompt |-> IF content.improved_prompt = NoTag THEN <<>>
                              ELSE strip(content.improved_prompt)]
    ELSE LET stripped == strip(content.should_modify)
             should_modify == Len(stripped) = 1 /\ lower(stripped[1]) = "true"
             improved_prompt == IF content.improved_prompt = NoTag THEN <<>>
                                ELSE strip(content.improved_prompt)
         IN IF content.confidence # NoTag /\ ~IsFloat(content.confidence)
            THEN [none |-> TRUE, should_modify |-> FALSE, improved_prompt |-> <<>>]
            ELSE [none |-> FALSE, should_modify |-> should_modify,
                  improved_prompt |-> IF should_modify THEN improved_prompt ELSE <<>>]

\* _parse_improvement_xml: none is TRUE when the function returns None.
_parse_improvement_xml(content) ==
    IF content.should_modify = NoTag
    THEN [none |-> TRUE, should_modify |-> FALSE, improved_prompt |-> <<>>]
    ELSE LET stripped == strip(content.should_modify)
             should_modify == Len(stripped) = 1 /\ lower(stripped[1]) = "true"
             improved_prompt == IF content.improved_prompt = NoTag THEN <<>>
                                ELSE strip(content.improved_prompt)
         IN IF content.confidence # NoTag /\ ~IsFloat(content.confidence)
            THEN [none |-> TRUE, should_modify |-> FALSE, improved_prompt |-> <<>>]
            ELSE [none |-> FALSE, should_modify |-> should_modify,
                  improved_prompt |-> IF should_modify THEN improved_prompt ELSE <<>>]

\* Mutant: the UPDATE has lost its WHERE clause and rewrites every row.
_complete_cycle_EveryRow(cycle_id, issues_count, improvements_count, analysis_result) ==
    [c \in DOMAIN cycles |->
        [cycles[c] EXCEPT !.status = "completed",
                          !.issues_analyzed_count = issues_count,
                          !.improvements_applied_count = improvements_count,
                          !.analysis_result = analysis_result]]

\* The UPDATE of _complete_cycle on the cycles table.
_complete_cycle(cycle_id, issues_count, improvements_count, analysis_result) ==
    [cycles EXCEPT ![cycle_id] =
        [@ EXCEPT !.status = "completed",
                  !.issues_analyzed_count = issues_count,
                  !.improvements_applied_count = improvements_count,
                  !.analysis_result = analysis_result]]

\* Mutant: the except block records the failure without its error text.
MarkCycleFailed_NoText(cycle_id, error) ==
    [cycles EXCEPT ![cycle_id] = [@ EXCEPT !.status = "failed"]]

\* The UPDATE of run_review's except block.
MarkCycleFailed(cycle_id, error) ==
    [cycles EXCEPT ![cycle_id] =
        [@ EXCEPT !.status = "failed", !.error_message = error]]

\* Mutant: the UPDATE stores the error text and leaves the status.
_fail_fix_ErrorOnly(issue_id, error_message) ==
    IF issue_id \in DOMAIN issues
    THEN [issues EXCEPT ![issue_id] = [@ EXCEPT !.fix_error = error_message]]
    ELSE issues

\* Mutant: the failing UPDATE also closes the issue.
_fail_fix_Resolves(issue_id, error_message) ==
    IF issue_id \in DOMAIN issues
    THEN [issues EXCEPT ![issue_id] =
            [@ EXCEPT !.fix_status = "failed", !.fix_error = error_message,
                      !.is_resolved = TRUE]]
    ELSE issues

\* The UPDATE of _fail_fix; it changes no row when the id does not exist.
_fail_fix(issue_id, error_message) ==
    IF issue_id \in DOMAIN issues
    THEN [issues EXCEPT ![issue_id] =
            [@ EXCEPT !.fix_status = "failed", !.fix_error = error_message]]
    ELSE issues

\* ----------------------------------------------------------------- run_review
Set(p, t) == task' = [task EXCEPT ![p] = t]

\* The client property: the generation client can be built, which is found
\* out at its first use.
client(t) == t.anthropic_api_key # ""

\* The exception of a generation call: the ValueError of the client
\* property, or else an error of the call itself.
ClientError(t, error) ==
    IF client(t) THEN error ELSE "ANTHROPIC_API_KEY not configured"

\* run_review up to its first await inside the try block: the cycle row is
\* inserted in status running.
run_review(p, tenant_id, days) ==
    /\ task[p].kind = "idle"
    /\ Len(cycles) < MaxCycles
    /\ cycles' = Append(cycles, NewCycle(tenant_id, "cli"))
    /\ \E key \in ApiKeys :
          Set(p, [IdleTask EXCEPT !.kind = "review", !.pc = "fetch",
                                  !.tenant_id = tenant_id,
                                  !.cycle_id = Len(cycles) + 1,
                                  !.period_start = now - days * 24,
                                  !.anthropic_api_key = key])
    /\ UNCHANGED <<issues, revisions, docs, now, wvars>>

\* The except block of run_review: the cycle is marked failed and the
\* exception is raised again.
ReviewFailed(p, error) ==
    /\ cycles' = MarkCycleFailed(task[p].cycle_id, error)
    /\ Set(p, [task[p] EXCEPT !.pc = "raised", !.error = error])
    /\ UNCHANGED <<issues, revisions, docs, now, wvars>>

\* Step 5 of run_review (and its early exit): the cycle is completed and the
\* result returned.
ReviewCompleted(p, t, issues_count, improvements_count, analysis_result) ==
    /\ cycles' = _complete_cycle(t.cycle_id, issues_count, improvements_count,
                                 analysis_result)
    /\ Set(p, [t EXCEPT !.pc = "returned"])
    /\ UNCHANGED <<issues, revisions, docs, now, wvars>>

\* Step 1: the issue fetch raises.
FetchRaises(p) ==
    /\ task[p].kind = "review" /\ task[p].pc = "fetch"
    /\ ReviewFailed(p, "fetch failed")

\* Mutant: the early exit is never taken.
NoIssues_Never(fetched) == FALSE

\* "if not issues": the early exit of run_review
NoIssues(fetched) == fetched = <<>>

\* Step 1: the fetch returns no issue.
FetchEmpty(p) ==
    /\ task[p].kind = "review" /\ task[p].pc = "fetch"
    /\ NoIssues(_fetch_unresolved_issues(task[p].tenant_id, task[p].period_start))
    /\ ReviewCompleted(p, task[p], 0, 0, "No issues found")

\* Step 1: the fetch returns issues; step 2 builds the context.
FetchIssues(p) ==
    /\ task[p].kind = "review" /\ task[p].pc = "fetch"
    /\ LET fetched == _fetch_unresolved_issues(task[p].tenant_id, task[p].period_start)
       IN /\ ~NoIssues(fetched)
          /\ Set(p, [task[p] EXCEPT !.pc = "load", !.issues = fetched,
                                    !.period_start = 0])
    /\ UNCHANGED <<issues, cycles, revisions, docs, now, wvars>>

\* Step 2: building the context from the fetched issues raises.
BuildContextRaises(p) ==
    /\ task[p].kind = "review" /\ task[p].pc = "fetch"
    /\ ~NoIssues(_fetch_unresolved_issues(task[p].tenant_id, task[p].period_start))
    /\ ReviewFailed(p, "context failed")

\* Step 3: _load_reviewer_prompt returns the template or raises.
LoadPromptRaises(p) ==
    /\ task[p].kind = "review" /\ task[p].pc = "load"
    /\ ReviewFailed(p, "Prompt Improver prompt not found")

LoadPrompt(p) ==
    /\ task[p].kind = "review" /\ task[p].pc = "load"
    /\ Set(p, [task[p] EXCEPT !.pc = "analyze"])
    /\ UNCHANGED <<issues, cycles, revisions, docs, now, wvars>>

\* Step 3: the analysis generation call raises.
AnalysisRaises(p) ==
    /\ task[p].kind = "review" /\ task[p].pc = "analyze"
    /\ ReviewFailed(p, ClientError(task[p], "analysis failed"))

\* Steps 3 and 4 up to the candidate loop: the analysis is parsed, and with
\* proposals and candidates the loop of _process_improvements is entered.
RunAnalysis(p) ==
    /\ task[p].kind = "review" /\ task[p].pc = "analyze"
    /\ client(task[p])
    /\ \E analysis \in AnalysisResponses :
          LET proposals == ProposalsOf(_parse_xml_response(analysis))
              agents_with_issues ==
                  _extract_agents_from_proposals(proposals, task[p].issues)
          IN IF proposals # <<>> /\ agents_with_issues # <<>>
             THEN /\ Set(p, [task[p] EXCEPT !.pc = "gate", !.proposals = proposals,
                                            !.agents = agents_with_issues, !.idx = 1])
                  /\ UNCHANGED <<issues, cycles, revisions, docs, now, wvars>>
             ELSE ReviewCompleted(p, [task[p] EXCEPT !.proposals = proposals],
                                  Len(task[p].issues), 0, "sections")

\* ------------------------------------------------------ _process_improvements
AtGate(p) ==
    /\ task[p].kind = "review" /\ task[p].pc = "gate"
    /\ task[p].idx <= Len(task[p].agents)

Candidate(p) == task[p].agents[task[p].idx]
CandidateIssues(p) == IssuesOfAgent(task[p].issues, Candidate(p))

\* Mutant: the loop stays at its candidate.
NextCandidate_Again(t) ==
    [t EXCEPT !.pc = "gate", !.agent_name = NULL,
              !.agent_issues = <<>>, !.current_prompt = 0, !.rows_seen = 0,
              !.response = NoResponse, !.improved_prompt = <<>>]

\* continue: the next candidate
NextCandidate(t) ==
    [t EXCEPT !.pc = "gate", !.idx = t.idx + 1, !.agent_name = NULL,
              !.agent_issues = <<>>, !.current_prompt = 0, !.rows_seen = 0,
              !.response = NoResponse, !.improved_prompt = <<>>]

\* Mutant: the cycle is completed with the number of candidates tried.
LoopDone_CountsCandidates(p) ==
    /\ task[p].kind = "review" /\ task[p].pc = "gate"
    /\ task[p].idx > Len(task[p].agents)
    /\ ReviewCompleted(p, task[p], Len(task[p].issues), Len(task[p].agents),
                       "sections")

\* The loop is over: _process_improvements returns its revisions.
LoopDone(p) ==
    /\ task[p].kind = "review" /\ task[p].pc = "gate"
    /\ task[p].idx > Len(task[p].agents)
    /\ ReviewCompleted(p, task[p], Len(task[p].issues), Len(task[p].revisions),
                       "sections")

\* break: the budget of the cycle is used up.
BudgetBreak(p) ==
    /\ AtGate(p)
    /\ MaxImprovementsReached(task[p].improvements_applied)
    /\ ReviewCompleted(p, task[p], Len(task[p].issues), Len(task[p].revisions),
                       "sections")

CooldownSkip(p) ==
    /\ AtGate(p)
    /\ ~MaxImprovementsReached(task[p].improvements_applied)
    /\ _is_on_cooldown(task[p].tenant_id, Candidate(p))
    /\ Set(p, NextCandidate(task[p]))
    /\ UNCHANGED <<issues, cycles, revisions, docs, now, wvars>>

MinIssuesSkip(p) ==
    /\ AtGate(p)
    /\ ~MaxImprovementsReached(task[p].improvements_applied)
    /\ ~_is_on_cooldown(task[p].tenant_id, Candidate(p))
    /\ NotEnoughIssues(CandidateIssues(p))
    /\ Set(p, NextCandidate(task[p]))
    /\ UNCHANGED <<issues, cycles, revisions, docs, now, wvars>>

\* Mutant: the gate does not ask for the cooldown.
StartAttempt_NoCooldown(p) ==
    /\ AtGate(p)
    /\ ~MaxImprovementsReached(task[p].improvements_applied)
    /\ ~NotEnoughIssues(CandidateIssues(p))
    /\ Set(p, [task[p] EXCEPT !.pc = "get_prompt", !.agent_name = Candidate(p),
                              !.agent_issues = CandidateIssues(p),
                              !.rows_seen = Len(revisions)])
    /\ UNCHANGED <<issues, cycles, revisions, docs, now, wvars>>

\* The candidate passes the gate: _improve_agent_prompt is called.
StartAttempt(p) ==
    /\ AtGate(p)
    /\ ~MaxImprovementsReached(task[p].improvements_applied)
    /\ ~_is_on_cooldown(task[p].tenant_id, Candidate(p))
    /\ ~NotEnoughIssues(CandidateIssues(p))
    /\ Set(p, [task[p] EXCEPT !.pc = "get_prompt", !.agent_name = Candidate(p),
                              !.agent_issues = CandidateIssues(p),
                              !.rows_seen = Len(revisions)])
    /\ UNCHANGED <<issues, cycles, revisions, docs, now, wvars>>

\* Mutant: a review closes the issues its revision addresses.
AfterAttempt_ReviewResolves(p, revision_id, error) ==
    LET t == task[p] IN
    IF t.kind = "review"
    THEN /\ Set(p, IF error = NULL /\ revision_id # NoId
                   THEN [NextCandidate(t) EXCEPT
                            !.revisions = Append(t.revisions, revision_id),
                            !.improvements_applied = t.improvements_applied + 1]
                   ELSE NextCandidate(t))
         /\ issues' = IF error = NULL /\ revision_id # NoId
                      THEN [i \in DOMAIN issues |->
                              IF i \in Range(t.agent_issues)
                              THEN [issues[i] EXCEPT !.is_resolved = TRUE]
                              ELSE issues[i]]
                      ELSE issues
         /\ UNCHANGED cycles
    ELSE IF error # NULL
    THEN /\ issues' = _fail_fix(t.issue_id, error)
         /\ Set(p, [t EXCEPT !.pc = "returned", !.error = error])
         /\ UNCHANGED cycles
    ELSE IF revision_id = NoId
    THEN /\ cycles' = _complete_cycle(t.cycle_id, 1, 0, "no change needed")
         /\ issues' = _fail_fix(t.issue_id, "no changes needed")
         /\ Set(p, [t EXCEPT !.pc = "returned"])
    ELSE /\ cycles' = _complete_cycle(t.cycle_id, 1, 1, "fix_applied")
         /\ issues' = [issues EXCEPT ![t.issue_id] =
                          [@ EXCEPT !.fix_status = "completed", !.fix_error = NULL,
                                    !.fix_result = revision_id, !.is_resolved = TRUE]]
         /\ Set(p, [t EXCEPT !.pc = "returned",
                             !.revisions = Append(t.revisions, revision_id)])

\* ------------------------------------------------------- _improve_agent_prompt
\* Mutant: every attempt of a review counts against the budget, whatever
\* its outcome.
AfterAttempt_CountsAttempts(p, revision_id, error) ==
    LET t == task[p] IN
    IF t.kind = "review"
    THEN /\ Set(p, IF error = NULL /\ revision_id # NoId
                   THEN [NextCandidate(t) EXCEPT
                            !.revisions = Append(t.revisions, revision_id),
                            !.improvements_applied = t.improvements_applied + 1]
                   ELSE [NextCandidate(t) EXCEPT
                            !.improvements_applied = t.improvements_applied + 1])
         /\ UNCHANGED <<issues, cycles>>
    ELSE IF error # NULL
    THEN /\ issues' = _fail_fix(t.issue_id, error)
         /\ Set(p, [t EXCEPT !.pc = "returned", !.error = error])
         /\ UNCHANGED cycles
    ELSE IF revision_id = NoId
    THEN /\ cycles' = _complete_cycle(t.cycle_id, 1, 0, "no change needed")
         /\ issues' = _fail_fix(t.issue_id, "no changes needed")
         /\ Set(p, [t EXCEPT !.pc = "returned"])
    ELSE /\ cycles' = _complete_cycle(t.cycle_id, 1, 1, "fix_applied")
         /\ issues' = [issues EXCEPT ![t.issue_id] =
                          [@ EXCEPT !.fix_status = "completed", !.fix_error = NULL,
                                    !.fix_result = revision_id, !.is_resolved = TRUE]]
         /\ Set(p, [t EXCEPT !.pc = "returned",
                             !.revisions = Append(t.revisions, revision_id)])

\* Mutant: a fix whose attempt gives no revision ends as a silent no-op.
AfterAttempt_SilentNoChange(p, revision_id, error) ==
    LET t == task[p] IN
    IF t.kind = "review"
    THEN /\ Set(p, IF error = NULL /\ revision_id # NoId
                   THEN [NextCandidate(t) EXCEPT
                            !.revisions = Append(t.revisions, revision_id),
                            !.improvements_applied = t.improvements_applied + 1]
                   ELSE NextCandidate(t))
         /\ UNCHANGED <<issues, cycles>>
    ELSE IF error # NULL
    THEN /\ issues' = _fail_fix(t.issue_id, error)
         /\ Set(p, [t EXCEPT !.pc = "returned", !.error = error])
         /\ UNCHANGED cycles
    ELSE IF revision_id = NoId
    THEN /\ cycles' = _complete_cycle(t.cycle_id, 1, 0, "no change needed")
         /\ UNCHANGED issues
         /\ Set(p, [t EXCEPT !.pc = "returned"])
    ELSE /\ cycles' = _complete_cycle(t.cycle_id, 1, 1, "fix_applied")
         /\ issues' = [issues EXCEPT ![t.issue_id] =
                          [@ EXCEPT !.fix_status = "completed", !.fix_error = NULL,
                                    !.fix_result = revision_id, !.is_resolved = TRUE]]
         /\ Set(p, [t EXCEPT !.pc = "returned",
                             !.revisions = Append(t.revisions, revision_id)])

\* What the caller does with the outcome of _improve_agent_prompt: a
\* revision id, None (NoId), or an exception (error # NULL).
\*   _process_improvements: a revision is appended and counted; None and
\*     an exception (caught and logged) go on to the next candidate.
\*   fix_single_issue: None completes the cycle with 0 improvements and
\*     fails the fix; a revision completes the cycle with 1 and resolves
\*     the issue; an exception reaches the outer except, which fails the fix.
AfterAttempt(p, revision_id, error) ==
    LET t == task[p] IN
    IF t.kind = "review"
    THEN /\ Set(p, IF error = NULL /\ revision_id # NoId
                   THEN [NextCandidate(t) EXCEPT
                            !.revisions = Append(t.revisions, revision_id),
                            !.improvements_applied = t.improvements_applied + 1]
                   ELSE NextCandidate(t))
         /\ UNCHANGED <<issues, cycles>>
    ELSE IF error # NULL
    THEN /\ issues' = _fail_fix(t.issue_id, error)
         /\ Set(p, [t EXCEPT !.pc = "returned", !.error = error])
         /\ UNCHANGED cycles
    ELSE IF revision_id = NoId
    THEN /\ cycles' = _complete_cycle(t.cycle_id, 1, 0, "no change needed")
         /\ issues' = _fail_fix(t.issue_id, "no changes needed")
         /\ Set(p, [t EXCEPT !.pc = "returned"])
    ELSE /\ cycles' = _complete_cycle(t.cycle_id, 1, 1, "fix_applied")
         /\ issues' = [issues EXCEPT ![t.issue_id] =
                          [@ EXCEPT !.fix_status = "completed", !.fix_error = NULL,
                                    !.fix_result = revision_id, !.is_resolved = TRUE]]
         /\ Set(p, [t EXCEPT !.pc = "returned",
                             !.revisions = Append(t.revisions, revision_id)])

InAttempt(p, pc) == task[p].kind \in {"review", "fix"} /\ task[p].pc = pc

\* github.get_prompt returns the current document.
GetPrompt(p) ==
    /\ InAttempt(p, "get_prompt")
    /\ Set(p, [task[p] EXCEPT !.pc = "generate",
                              !.current_prompt = Len(docs[task[p].agent_name])])
    /\ UNCHANGED <<issues, cycles, revisions, docs, now, wvars>>

\* github.get_prompt raises GitHubServiceError: the attempt returns None.
GetPromptFails(p) ==
    /\ InAttempt(p, "get_prompt")
    /\ AfterAttempt(p, NoId, NULL)
    /\ UNCHANGED <<revisions, docs, now, wvars>>

\* The patch generation call returns a response.
Generate(p) ==
    /\ InAttempt(p, "generate")
    /\ client(task[p])
    /\ \E response \in PatchResponses : Set(p, [task[p] EXCEPT !.pc = "parse",
                                                               !.response = response])
    /\ UNCHANGED <<issues, cycles, revisions, docs, now, wvars>>

\* The patch generation call raises.
GenerateRaises(p) ==
    /\ InAttempt(p, "generate")
    /\ AfterAttempt(p, NoId, ClientError(task[p], "generation failed"))
    /\ UNCHANGED <<revisions, docs, now, wvars>>

\* Mutant: stop_reason is not inspected.
ImprovedPromptOf_NoStopReason(response) ==
    LET result == _parse_improvement_xml(response)
    IN IF result.none THEN <<>>
       ELSE IF ~result.should_modify THEN <<>>
       ELSE result.improved_prompt

\* The improved prompt the response yields, or <<>> when the attempt is
\* given up: truncated, no should_modify tag or unparsable, should_modify
\* not true, or an empty improved prompt.
ImprovedPromptOf(response) ==
    IF response.stop_reason = "max_tokens" THEN <<>>
    ELSE LET result == _parse_improvement_xml(response)
         IN IF result.none THEN <<>>
            ELSE IF ~result.should_modify THEN <<>>
            ELSE result.improved_prompt

\* The synchronous code after the generation call returned.
ParseGivesUp(p) ==
    /\ InAttempt(p, "parse")
    /\ ImprovedPromptOf(task[p].response) = <<>>
    /\ AfterAttempt(p, NoId, NULL)
    /\ UNCHANGED <<revisions, docs, now, wvars>>

ParseAccepts(p) ==
    /\ InAttempt(p, "parse")
    /\ ImprovedPromptOf(task[p].response) # <<>>
    /\ Set(p, [task[p] EXCEPT !.pc = "update_prompt", !.response = NoResponse,
                              !.improved_prompt = ImprovedPromptOf(task[p].response)])
    /\ UNCHANGED <<issues, cycles, revisions, docs, now, wvars>>

\* github.update_prompt commits the improved prompt.
UpdatePrompt(p) ==
    /\ InAttempt(p, "update_prompt")
    /\ docs' = [docs EXCEPT ![task[p].agent_name] = Append(@, task[p].cycle_id)]
    /\ Set(p, [task[p] EXCEPT !.pc = "insert"])
    /\ UNCHANGED <<issues, cycles, revisions, now, wvars>>

\* Mutant: the failure of the write is not noticed and the revision is stored.
UpdatePromptFails_GoesOn(p) ==
    /\ InAttempt(p, "update_prompt")
    /\ Set(p, [task[p] EXCEPT !.pc = "insert"])
    /\ UNCHANGED <<issues, cycles, revisions, docs, now, wvars>>

\* github.update_prompt raises GitHubServiceError: the attempt returns None.
UpdatePromptFails(p) ==
    /\ InAttempt(p, "update_prompt")
    /\ AfterAttempt(p, NoId, NULL)
    /\ UNCHANGED <<revisions, docs, now, wvars>>

\* Mutant: the INSERT has lost the agent_name column.
NewRevision_NoAgent(t) ==
    [review_cycle_id |-> t.cycle_id, tenant_id |-> t.tenant_id,
     agent_name |-> NULL, issues_addressed |-> t.agent_issues,
     created_at |-> now, is_rolled_back |-> FALSE]

\* The row INSERT INTO prompt_revisions writes.
NewRevision(t) ==
    [review_cycle_id |-> t.cycle_id, tenant_id |-> t.tenant_id,
     agent_name |-> t.agent_name, issues_addressed |-> t.agent_issues,
     created_at |-> now, is_rolled_back |-> FALSE]

\* The revision row is inserted and the attempt returns it.
InsertRevision(p) ==
    /\ InAttempt(p, "insert")
    /\ revisions' = Append(revisions, NewRevision(task[p]))
    /\ AfterAttempt(p, Len(revisions) + 1, NULL)
    /\ UNCHANGED <<docs, now, wvars>>

\* str(e) of what the INSERT may raise: a database error with its message,
\* or the command timeout of the pool, an asyncio.TimeoutError, whose text
\* is empty.
InsertErrors == {"insert failed", ""}

\* The INSERT raises.
InsertRevisionRaises(p) ==
    /\ InAttempt(p, "insert")
    /\ \E error \in InsertErrors : AfterAttempt(p, NoId, error)
    /\ UNCHANGED <<revisions, docs, now, wvars>>

\* ------------------------------------------------------------ fix_single_issue
\* fix_single_issue up to the fetch of the issue: the fix is marked in_progress.
fix_single_issue(p, issue_id) ==
    /\ task[p].kind = "idle"
    /\ Len(cycles) < MaxCycles
    /\ issues' = IF issue_id \in DOMAIN issues
                 THEN [issues EXCEPT ![issue_id] =
                          [@ EXCEPT !.fix_status = "in_progress", !.fix_error = NULL]]
                 ELSE issues
    /\ \E key \in ApiKeys :
          Set(p, [IdleTask EXCEPT !.kind = "fix", !.pc = "fix_fetch",
                                  !.issue_id = issue_id,
                                  !.anthropic_api_key = key])
    /\ UNCHANGED <<cycles, revisions, docs, now, wvars>>

\* The issue does not exist: _fail_fix and return.
FixIssueNotFound(p) ==
    /\ task[p].kind = "fix" /\ task[p].pc = "fix_fetch"
    /\ task[p].issue_id \notin DOMAIN issues
    /\ issues' = _fail_fix(task[p].issue_id, "Quality issue not found")
    /\ Set(p, [task[p] EXCEPT !.pc = "returned"])
    /\ UNCHANGED <<cycles, revisions, docs, now, wvars>>

\* Mutant: the operation returns without recording the failure.
FixNoAgent_Silent(p) ==
    /\ task[p].kind = "fix" /\ task[p].pc = "fix_fetch"
    /\ task[p].issue_id \in DOMAIN issues
    /\ issues[task[p].issue_id].agent_name = NULL
    /\ Set(p, [task[p] EXCEPT !.pc = "returned",
                              !.tenant_id = issues[task[p].issue_id].tenant_id])
    /\ UNCHANGED <<issues, cycles, revisions, docs, now, wvars>>

\* The issue has no agent name: _fail_fix and return.
FixNoAgent(p) ==
    /\ task[p].kind = "fix" /\ task[p].pc = "fix_fetch"
    /\ task[p].issue_id \in DOMAIN issues
    /\ issues[task[p].issue_id].agent_name = NULL
    /\ issues' = _fail_fix(task[p].issue_id, "Issue has no associated agent name")
    /\ Set(p, [task[p] EXCEPT !.pc = "returned",
                              !.tenant_id = issues[task[p].issue_id].tenant_id])
    /\ UNCHANGED <<cycles, revisions, docs, now, wvars>>

\* The tracking cycle is inserted and _improve_agent_prompt is called.
FixCreateCycle(p) ==
    /\ task[p].kind = "fix" /\ task[p].pc = "fix_fetch"
    /\ task[p].issue_id \in DOMAIN issues
    /\ issues[task[p].issue_id].agent_name # NULL
    /\ cycles' = Append(cycles, NewCycle(issues[task[p].issue_id].tenant_id, "admin-fix"))
    /\ Set(p, [task[p] EXCEPT !.pc = "get_prompt",
                              !.tenant_id = issues[task[p].issue_id].tenant_id,
                              !.cycle_id = Len(cycles) + 1,
                              !.agent_name = issues[task[p].issue_id].agent_name,
                              !.agent_issues = <<task[p].issue_id>>])
    /\ UNCHANGED <<issues, revisions, docs, now, wvars>>

\* ------------------------------------------------------------- entry points
\* trigger_qa_review_sync: the result of run_review, or HTTP 500 with the
\* text of the exception it raised.
trigger_qa_review_sync(t) ==
    IF t.pc = "raised" THEN [status |-> "500", detail |-> t.error]
    ELSE [status |-> "200", detail |-> NULL]

\* _run_review_safe: an exception of run_review is logged and not raised
\* again; the background task returns None either way.
_run_review_safe(t) == [status |-> NULL, detail |-> NULL]

\* The acknowledgement of trigger_qa_review: the background task
\* _run_review_safe is queued and the response is returned.
trigger_qa_review(p, tenant_id, days) ==
    /\ task[p].kind = "idle"
    /\ Len(cycles) < MaxCycles
    /\ \E key \in ApiKeys :
          Set(p, [IdleTask EXCEPT !.kind = "background", !.pc = "queued",
                                  !.caller = "_run_review_safe",
                                  !.reply = "started",
                                  !.tenant_ids = <<tenant_id>>, !.days = days,
                                  !.cycles_before = Len(cycles),
                                  !.anthropic_api_key = key])
    /\ UNCHANGED <<issues, cycles, revisions, docs, now, wvars>>

\* trigger_qa_review_all with the tenant ids fetched: without tenants the
\* response is no_tenants and nothing is queued; else _run_review_all_safe
\* is queued and the response is returned.
trigger_qa_review_all(p, tenant_ids, days) ==
    /\ task[p].kind = "idle"
    /\ Len(cycles) < MaxCycles
    /\ IF tenant_ids = <<>>
       THEN Set(p, [IdleTask EXCEPT !.kind = "request", !.pc = "done",
                                   !.reply = "no_tenants"])
       ELSE \E key \in ApiKeys :
               Set(p, [IdleTask EXCEPT !.kind = "background", !.pc = "queued",
                                       !.caller = "_run_review_all_safe",
                                       !.reply = "started",
                                       !.tenant_ids = tenant_ids, !.days = days,
                                       !.cycles_before = Len(cycles),
                                       !.anthropic_api_key = key])
    /\ UNCHANGED <<issues, cycles, revisions, docs, now, wvars>>

\* trigger_qa_review_all when _get_active_tenant_ids raises: the except
\* block answers with HTTP 500 and nothing is queued.
TenantFetchRaises(p) ==
    /\ task[p].kind = "idle"
    /\ Len(cycles) < MaxCycles
    /\ Set(p, [IdleTask EXCEPT !.kind = "request", !.pc = "done", !.reply = "500",
                               !.error = "tenant fetch failed"])
    /\ UNCHANGED <<issues, cycles, revisions, docs, now, wvars>>

\* Mutant: the loop calls the review of its first tenant every time.
BackgroundCall_FirstTenant(p) ==
    /\ task[p].kind = "background" /\ task[p].pc = "queued"
    /\ task[p].i < Len(task[p].tenant_ids)
    /\ cycles' = Append(cycles, NewCycle(task[p].tenant_ids[1], "cli"))
    /\ Set(p, [task[p] EXCEPT !.kind = "review", !.pc = "fetch",
                              !.tenant_id = task[p].tenant_ids[1],
                              !.cycle_id = Len(cycles) + 1,
                              !.period_start = now - task[p].days * 24,
                              !.i = task[p].i + 1])
    /\ UNCHANGED <<issues, revisions, docs, now, wvars>>

\* The background task calls run_review for its next tenant (the only one
\* of _run_review_safe): run_review up to its first await inside the try
\* block.
BackgroundCall(p) ==
    /\ task[p].kind = "background" /\ task[p].pc = "queued"
    /\ task[p].i < Len(task[p].tenant_ids)
    /\ cycles' = Append(cycles, NewCycle(task[p].tenant_ids[task[p].i + 1], "cli"))
    /\ Set(p, [task[p] EXCEPT !.kind = "review", !.pc = "fetch",
                              !.tenant_id = task[p].tenant_ids[task[p].i + 1],
                              !.cycle_id = Len(cycles) + 1,
                              !.period_start = now - task[p].days * 24,
                              !.i = task[p].i + 1])
    /\ UNCHANGED <<issues, revisions, docs, now, wvars>>

\* The locals of the background task once a review has ended with outcome.
AfterReview(t, outcome) ==
    [IdleTask EXCEPT !.kind = "background",
                     !.pc = IF t.i < Len(t.tenant_ids) THEN "queued" ELSE "done",
                     !.caller = t.caller, !.reply = t.reply,
                     !.tenant_ids = t.tenant_ids, !.days = t.days, !.i = t.i,
                     !.cycles_before = t.cycles_before,
                     !.anthropic_api_key = t.anthropic_api_key,
                     !.log = Append(t.log, [tenant_id |-> t.tenant_id,
                                            cycle_id |-> t.cycle_id,
                                            outcome |-> outcome])]

\* Mutant: an exception of run_review leaves the wrapper and ends the
\* background task.
WrapperResumes_Reraises(p) ==
    /\ task[p].caller # NULL
    /\ task[p].pc \in {"returned", "raised"}
    /\ Set(p, IF task[p].pc = "returned"
              THEN AfterReview(task[p], "completed")
              ELSE [AfterReview(task[p], "failed") EXCEPT
                       !.pc = "done", !.reply = "500", !.error = task[p].error])
    /\ UNCHANGED <<issues, cycles, revisions, docs, now, wvars>>

\* run_review has returned to the wrapper or has raised into its except
\* block: the outcome is logged and the wrapper goes on.
WrapperResumes(p) ==
    /\ task[p].caller # NULL
    /\ task[p].pc \in {"returned", "raised"}
    /\ Set(p, AfterReview(task[p], IF task[p].pc = "returned"
                                   THEN "completed" ELSE "failed"))
    /\ UNCHANGED <<issues, cycles, revisions, docs, now, wvars>>

\* The request has been answered and its background task, if any, is over.
Finished(p) ==
    /\ task[p].pc = "done"
    /\ Set(p, IdleTask)
    /\ UNCHANGED <<issues, cycles, revisions, docs, now, wvars>>

\* ------------------------------------------------------------- environment
\* No coroutine is under way.
AllIdle == \A p \in Procs : task[p].kind = "idle"

\* The cycles table has room for another operation.
CanStart == Len(cycles) < MaxCycles

\* The caller of the coroutine takes its result or its exception.
Exit(p) ==
    /\ task[p].pc \in {"returned", "raised"}
    /\ task[p].caller = NULL
    /\ Set(p, IdleTask)
    /\ UNCHANGED <<issues, cycles, revisions, docs, now, wvars>>

\* Time passes (datetime.now, NOW()).
Tick ==
    /\ AllIdle /\ CanStart
    /\ now + TickHours <= MaxTime
    /\ now' = now + TickHours
    /\ UNCHANGED <<issues, cycles, revisions, docs, task, wvars>>

\* An administrator rolls a revision back.
Rollback(r) ==
    /\ AllIdle /\ CanStart
    /\ r \in DOMAIN revisions
    /\ revisions[r].is_rolled_back = FALSE
    /\ revisions' = [revisions EXCEPT ![r].is_rolled_back = TRUE]
    /\ UNCHANGED <<issues, cycles, docs, now, task, wvars>>

ReviewStep(p) ==
    \/ FetchRaises(p) \/ FetchEmpty(p) \/ FetchIssues(p) \/ BuildContextRaises(p)
    \/ LoadPromptRaises(p) \/ LoadPrompt(p)
    \/ AnalysisRaises(p) \/ RunAnalysis(p)
    \/ LoopDone(p) \/ BudgetBreak(p) \/ CooldownSkip(p) \/ MinIssuesSkip(p)
    \/ StartAttempt(p)
    \/ GetPrompt(p) \/ GetPromptFails(p)
    \/ Generate(p) \/ GenerateRaises(p)
    \/ ParseGivesUp(p) \/ ParseAccepts(p)
    \/ UpdatePrompt(p) \/ UpdatePromptFails(p)
    \/ InsertRevision(p) \/ InsertRevisionRaises(p)

Step(p) ==
    \/ ReviewStep(p)
    \/ FixIssueNotFound(p) \/ FixNoAgent(p) \/ FixCreateCycle(p)
    \/ Exit(p)

\* A new coroutine takes the first free slot.
FreeSlot == CHOOSE p \in Procs : task[p].kind = "idle" /\ \A q \in Procs : q < p => task[q].kind # "idle"

\* Operations are started one at a time: the next one only when the
\* previous one has returned or raised.
Next ==
    \/ \E tenant_id \in Tenants, days \in Days :
          AllIdle /\ run_review(FreeSlot, tenant_id, days)
    \/ \E issue_id \in 1..(Len(issues) + 1) :
          AllIdle /\ fix_single_issue(FreeSlot, issue_id)
    \/ \E p \in Procs : Step(p)
    \/ Tick
    \/ \E r \in DOMAIN revisions : Rollback(r)

Spec == Init /\ [][Next]_vars

\* The asynchronous trigger endpoints, one request at a time.
NextTriggers ==
    \/ \E tenant_id \in Tenants, days \in Days :
          AllIdle /\ trigger_qa_review(FreeSlot, tenant_id, days)
    \/ \E tenant_ids \in ActiveTenantLists, days \in Days :
          AllIdle /\ trigger_qa_review_all(FreeSlot, tenant_ids, days)
    \/ AllIdle /\ TenantFetchRaises(FreeSlot)
    \/ \E p \in Procs :
          \/ BackgroundCall(p) \/ ReviewStep(p) \/ WrapperResumes(p) \/ Finished(p)
    \/ Tick
    \/ \E r \in DOMAIN revisions : Rollback(r)

SpecTriggers == Init /\ [][NextTriggers]_vars

\* A new installation: issues have been logged, no review has run yet.  All
\* four agents of tenant t1 have issues enough for a patch attempt; of
\* tenant t2 one agent has and one has not.
InitConcurrent ==
    /\ issues = Dated(RowsOf("t1", <<(<<Plain, Plain>>), <<Crit>>, <<Halluc>>, <<Halluc>> >>, 1)
                      \o <<IssueRow("t2", "calendar", Halluc, 0)>>
                      \o <<IssueRow("t2", "finance", Plain, 0)>>)
    /\ cycles = <<>>
    /\ revisions = <<>>
    /\ docs = [a \in AgentNames |-> <<>>]
    /\ now = StartTime
    /\ task = [p \in Procs |-> IdleTask]
    /\ NoMessages

\* The tenants for which a review is started while another review of the
\* same tenant is under way.
ConcurrentTenants == {"t2"}

\* Every trigger call is a task of its own on the event loop, and the
\* steps of two reviews interleave at their awaits: a review is started
\* when none is under way, or for the tenant of the one that is.
NextConcurrent ==
    \/ \E tenant_id \in Tenants, days \in Days :
          AllIdle /\ run_review(FreeSlot, tenant_id, days)
    \/ \E tenant_id \in ConcurrentTenants, days \in Days :
          /\ ~AllIdle
          /\ \E p \in Procs : task[p].kind = "idle"
          /\ \A q \in Procs : task[q].kind # "idle" => task[q].tenant_id = tenant_id
          /\ run_review(FreeSlot, tenant_id, days)
    \/ \E p \in Procs : ReviewStep(p) \/ Exit(p)
    \/ Tick
    \/ \E r \in DOMAIN revisions : Rollback(r)

SpecConcurrent == InitConcurrent /\ [][NextConcurrent]_vars

\* ------------------------------------------------------------ quick_actions
\* An interactive id is the sequence of its parts: the text before the
\* first colon, the colon, the text after it.  No parts: None or "".
NoAction == [kind |-> NULL, expense_id |-> NULL]

parse_quick_action_id(action_id) ==
    IF action_id = <<>> THEN NoAction
    ELSE IF action_id = <<"fin_menu">> THEN [kind |-> "menu", expense_id |-> NULL]
    ELSE IF Len(action_id) >= 2 /\ action_id[1] = "fin_expense_edit" /\ action_id[2] = ":"
    THEN [kind |-> "expense_edit",
          expense_id |-> IF Len(action_id) >= 3 THEN action_id[3] ELSE NULL]
    ELSE IF Len(action_id) >= 2 /\ action_id[1] = "fin_expense_delete" /\ action_id[2] = ":"
    THEN [kind |-> "expense_delete",
          expense_id |-> IF Len(action_id) >= 3 THEN action_id[3] ELSE NULL]
    ELSE NoAction

\* The store functions, on the dict they work on; get also returns the
\* dict, from which it pops an entry it finds expired.
set_pending_expense_edit(edits, phone, expense_id, ttl_seconds) ==
    [edits EXCEPT ![phone] = PendingExpenseEdit(expense_id, time + ttl_seconds)]

get_pending_expense_edit_AtExpiry(edits, phone) ==
    LET item == edits[phone] IN
    IF item = NoEdit THEN [item |-> NoEdit, edits |-> edits]
    ELSE IF item.expires_at <= time
    THEN [item |-> NoEdit, edits |-> [edits EXCEPT ![phone] = NoEdit]]
    ELSE [item |-> item, edits |-> edits]

get_pending_expense_edit(edits, phone) ==
    LET item == edits[phone] IN
    IF item = NoEdit THEN [item |-> NoEdit, edits |-> edits]
    ELSE IF item.expires_at < time
    THEN [item |-> NoEdit, edits |-> [edits EXCEPT ![phone] = NoEdit]]
    ELSE [item |-> item, edits |-> edits]

clear_pending_expense_edit(edits, phone) == [edits EXCEPT ![phone] = NoEdit]

\* The record of a set call, made now, and of a clear call.
SetCalled(phone, expense_id, ttl_seconds) ==
    [last_call EXCEPT ![phone] = [op |-> "set", expense_id |-> expense_id,
                                  ttl_seconds |-> ttl_seconds, at |-> time]]
ClearCalled(phone) ==
    [last_call EXCEPT ![phone] = [op |-> "clear", expense_id |-> NULL,
                                  ttl_seconds |-> 0, at |-> 0]]

\* ---------------------------------------------------------- process_message
\* The messages IncomingMessage.from_webhook and other callers hand over:
\* text, audio and interactive replies.  IncomingMessage as declared has no
\* is_audio and no audio_media_id field (audio_fields is FALSE).
MessageShapes ==
    {[audio_fields |-> TRUE, is_audio |-> a, is_interactive |-> FALSE,
      interactive_id |-> <<>>] : a \in BOOLEAN}
    \cup {[audio_fields |-> FALSE, is_audio |-> FALSE, is_interactive |-> FALSE,
           interactive_id |-> <<>>]}
    \cup {[audio_fields |-> TRUE, is_audio |-> FALSE, is_interactive |-> TRUE,
           interactive_id |-> i] :
            i \in {<<>>, <<"fin_menu">>, <<"fin_expense_edit", ":">>,
                   <<"fin_expense_edit", ":", "expense-42">>,
                   <<"fin_expense_delete", ":", "expense-42">>, <<"other">>}}

Over == {"idle", "returned", "raised"}

\* The awaits inside the try block.
TryPcs == {"mark_read", "transcribe", "resolve", "unregistered", "setup",
           "conversation", "router", "send_text", "log"}

\* A call that has ended: its locals are gone.
Leaves(pc) == [NoMessage EXCEPT !.pc = pc]

\* _is_rate_limited: the phone's timestamps of the last minute, and now.
Timestamps(phone) ==
    Append(SelectSeq(_rate_limit_store[phone], LAMBDA t : time - t < 60), time)

Arrives(phone, shape, pc) ==
    /\ message.pc \in Over
    /\ Len(Timestamps(phone)) <= max_messages_per_minute + 1
    /\ _rate_limit_store' = [_rate_limit_store EXCEPT ![phone] = Timestamps(phone)]
    /\ message' = [NoMessage EXCEPT !.pc = pc, !.phone = phone, !.text = "text",
                                    !.is_audio = shape.is_audio,
                                    !.is_interactive = shape.is_interactive,
                                    !.interactive_id = shape.interactive_id]
    /\ UNCHANGED <<_pending_expense_edits, time, last_call>>
    /\ UNCHANGED pvars

\* 196-204: over the limit.
RateLimited(phone, shape) ==
    /\ Len(Timestamps(phone)) > max_messages_per_minute
    /\ Arrives(phone, shape, "rate_limited")

\* 206-211: the log call reads message.is_audio, before the try block.
NoAudioAttribute(phone, shape) ==
    /\ Len(Timestamps(phone)) <= max_messages_per_minute
    /\ ~shape.audio_fields
    /\ Arrives(phone, shape, "raised")

process_message(phone, shape) ==
    /\ Len(Timestamps(phone)) <= max_messages_per_minute
    /\ shape.audio_fields
    /\ Arrives(phone, shape, "mark_read")

Moves(m) ==
    /\ message' = m
    /\ UNCHANGED <<_pending_expense_edits, _rate_limit_store, time, last_call>>
    /\ UNCHANGED pvars

\* 200-204, 229-233, 249-253: the text is sent and the call returns.
SendAndReturn ==
    /\ message.pc \in {"rate_limited", "apology"}
    /\ Moves(Leaves("returned"))

\* 256-291: the stretch from the input guard to the resolver's await.
Prepare(m) ==
    LET parsed_action == IF m.is_interactive /\ m.interactive_id # <<>>
                         THEN parse_quick_action_id(m.interactive_id)
                         ELSE NoAction
        sets == parsed_action.kind = "expense_edit" /\ parsed_action.expense_id # NULL
        clears == parsed_action.kind = "menu"
        deletes == parsed_action.kind = "expense_delete" /\ parsed_action.expense_id # NULL
        edits == IF sets
                 THEN set_pending_expense_edit(_pending_expense_edits, m.phone,
                                               parsed_action.expense_id, _DEFAULT_TTL_SECONDS)
                 ELSE IF clears
                 THEN clear_pending_expense_edit(_pending_expense_edits, m.phone)
                 ELSE _pending_expense_edits
        pending_edit == get_pending_expense_edit(edits, m.phone)
    IN  /\ _pending_expense_edits' = pending_edit.edits
        /\ last_call' = IF sets
                        THEN SetCalled(m.phone, parsed_action.expense_id, _DEFAULT_TTL_SECONDS)
                        ELSE IF clears THEN ClearCalled(m.phone) ELSE last_call
        /\ message' = [m EXCEPT
                         !.pc = "resolve",
                         !.text = IF deletes THEN "Eliminar gasto"
                                  ELSE IF sets THEN "Editar gasto"
                                  ELSE IF clears THEN "menu" ELSE m.text,
                         !.pending_edit = IF pending_edit.item # NoEdit /\ ~m.is_interactive
                                          THEN pending_edit.item.expense_id ELSE NULL]
        /\ UNCHANGED <<_rate_limit_store, time>>
        /\ UNCHANGED pvars

\* 215-218: read receipt sent; an audio message goes to transcription.
MarkedRead ==
    /\ message.pc = "mark_read"
    /\ ~message.is_audio
    /\ Prepare(message)

MarkedReadAudio ==
    /\ message.pc = "mark_read"
    /\ message.is_audio
    /\ Moves([message EXCEPT !.pc = "transcribe"])

\* 220-241
Transcribed ==
    /\ message.pc = "transcribe"
    /\ Prepare([message EXCEPT !.text = "transcribed"])

\* 228-233, 243-253: nothing understood, or download or transcription
\* raised.
NotTranscribed ==
    /\ message.pc = "transcribe"
    /\ Moves([message EXCEPT !.pc = "apology"])

\* 291-316: the handler of an unregistered phone and of one with its setup
\* pending, or the tenant's conversation.
Resolved(phone_info) ==
    /\ message.pc = "resolve"
    /\ Moves([message EXCEPT
                !.phone_info = phone_info,
                !.pc = IF phone_info = NoPhoneInfo THEN "unregistered"
                       ELSE IF ~phone_info.onboarding_completed THEN "setup"
                       ELSE "conversation",
                !.tenant_id = IF phone_info # NoPhoneInfo /\ phone_info.onboarding_completed
                              THEN phone_info.tenant_id ELSE NULL])

\* 295-296, 305-306
Handled ==
    /\ message.pc \in {"unregistered", "setup"}
    /\ Moves(Leaves("returned"))

\* 319-333: get_or_create and get_history
ConversationLoaded ==
    /\ message.pc = "conversation"
    /\ Moves([message EXCEPT !.pc = "router"])

\* 337-345: RouterAgent().process
RouterProcessed(result) ==
    /\ message.pc = "router"
    /\ Moves([message EXCEPT !.pc = "send_text", !.router_called = TRUE,
                             !.result = result])

\* 348-402: the reply, the quick actions and the two history rows
Replied ==
    /\ message.pc = "send_text"
    /\ Moves([message EXCEPT !.pc = "log"])

\* 405-470: the interaction is logged, a finished edit is cleared
Logged ==
    /\ message.pc = "log"
    /\ LET clears == /\ message.result.success
                     /\ message.result.tool \in {"modificar_gasto", "eliminar_gasto"}
       IN /\ _pending_expense_edits' =
                 IF clears
                 THEN clear_pending_expense_edit(_pending_expense_edits, message.phone)
                 ELSE _pending_expense_edits
          /\ last_call' = IF clears THEN ClearCalled(message.phone) ELSE last_call
    /\ message' = Leaves("returned")
    /\ UNCHANGED <<_rate_limit_store, time>>
    /\ UNCHANGED pvars

\* 472-478: an await of the try block raises
AwaitRaises ==
    /\ message.pc \in TryPcs
    /\ Moves([message EXCEPT !.pc = "error"])

\* 480-500: hard error logged, error text sent
ErrorHandled ==
    /\ message.pc = "error"
    /\ Moves(Leaves("returned"))

\* The store functions called on their own.
SetCall(phone, expense_id, ttl_seconds) ==
    /\ message.pc \in Over
    /\ _pending_expense_edits' =
          set_pending_expense_edit(_pending_expense_edits, phone, expense_id, ttl_seconds)
    /\ last_call' = SetCalled(phone, expense_id, ttl_seconds)
    /\ UNCHANGED <<_rate_limit_store, time, message>>
    /\ UNCHANGED pvars

GetCall(phone) ==
    /\ message.pc \in Over
    /\ _pending_expense_edits' = get_pending_expense_edit(_pending_expense_edits, phone).edits
    /\ UNCHANGED <<_rate_limit_store, time, message, last_call>>
    /\ UNCHANGED pvars

ClearCall(phone) ==
    /\ message.pc \in Over
    /\ _pending_expense_edits' = clear_pending_expense_edit(_pending_expense_edits, phone)
    /\ last_call' = ClearCalled(phone)
    /\ UNCHANGED <<_rate_limit_store, time, message>>
    /\ UNCHANGED pvars

\* time.time() moves on, between two calls.
Seconds ==
    /\ message.pc \in Over
    /\ time + TickSeconds <= MaxSeconds
    /\ time' = time + TickSeconds
    /\ UNCHANGED <<_pending_expense_edits, _rate_limit_store, message, last_call>>
    /\ UNCHANGED pvars

\* Messages arrive and are processed one at a time.
NextWebhook ==
    \/ \E phone \in Phones, shape \in MessageShapes :
          \/ RateLimited(phone, shape)
          \/ NoAudioAttribute(phone, shape)
          \/ process_message(phone, shape)
    \/ SendAndReturn \/ MarkedRead \/ MarkedReadAudio \/ Transcribed \/ NotTranscribed
    \/ \E phone_info \in PhoneInfos : Resolved(phone_info)
    \/ Handled \/ ConversationLoaded
    \/ \E result \in RouterResults : RouterProcessed(result)
    \/ Replied \/ Logged \/ AwaitRaises \/ ErrorHandled
    \/ Seconds

\* The webhook of a new installation: nothing stored, no review run.
SpecWebhook == InitConcurrent /\ [][NextWebhook]_vars

\* The store functions called in any order, for any phone.
NextStore ==
    \/ \E phone \in Phones :
          \/ \E expense_id \in ExpenseIds, ttl_seconds \in TtlSeconds :
                SetCall(phone, expense_id, ttl_seconds)
          \/ GetCall(phone)
          \/ ClearCall(phone)
    \/ Seconds

SpecStore == InitConcurrent /\ [][NextStore]_vars

\* ------------------------------------------------------------------ claims
Terminal == {"completed", "failed"}

\* The revisions table holds a live revision of (tenant, agent) no older
\* than the cooldown window.
LiveInWindow(tenant_id, agent_name) ==
    \E r \in DOMAIN revisions :
        /\ revisions[r].tenant_id = tenant_id
        /\ revisions[r].agent_name = agent_name
        /\ ~revisions[r].is_rolled_back
        /\ now - revisions[r].created_at <= qa_review_cooldown_hours

\* The ids among ids that belong to the agent.
IdsOfAgent(ids, agent_name) ==
    {i \in Range(ids) : issues[i].agent_name = agent_name}

\* One of the issues is a hallucination or is critical.
AnyCritical(S) ==
    \E i \in S : issues[i].issue_category = "hallucination" \/ issues[i].severity = "critical"

\* The issues reach the minimum or one of them is critical.
Qualifies(S) == Cardinality(S) >= qa_review_min_issues \/ AnyCritical(S)

\* The review of slot p stands before a candidate with budget left.
GateOpen(p) ==
    /\ task[p].kind = "review" /\ task[p].pc = "gate"
    /\ task[p].idx \in DOMAIN task[p].agents
    /\ task[p].improvements_applied < qa_review_max_improvements

\* This step starts a patch attempt in slot p.
AttemptBegins(p) == task[p].pc # "get_prompt" /\ task'[p].pc = "get_prompt"

\* C1: a cycle row is written to at most once after its creation: only a
\* running row changes, the change takes it to completed or failed, the
\* counts are unset until then and are set by the completing step only,
\* and no row is ever removed.
C1_CycleUpdatedOnce ==
    [][/\ Len(cycles') >= Len(cycles)
       /\ \A c \in DOMAIN cycles :
            /\ cycles[c].status \in Terminal => cycles'[c] = cycles[c]
            /\ cycles'[c] # cycles[c] =>
                  /\ cycles[c].status = "running"
                  /\ cycles'[c].status \in Terminal
                  /\ cycles[c].issues_analyzed_count = NullCount
                  /\ cycles[c].improvements_applied_count = NullCount
            /\ cycles'[c].issues_analyzed_count # cycles[c].issues_analyzed_count
                  => cycles'[c].status = "completed"
            /\ cycles'[c].improvements_applied_count # cycles[c].improvements_applied_count
                  => cycles'[c].status = "completed"]_vars

\* C1 witness: the operation of this behaviour has finalized its cycle and
\* has returned to its caller.
C1_Witness ==
    /\ Len(cycles) = 2 /\ cycles[2].status \in Terminal
    /\ AllIdle

\* C2: every cycle that is running belongs to an operation that is still
\* under way, so that each cycle gets its terminal update, also when the
\* generation call or the revision insert raises inside a patch attempt.
C2_NoCycleLeftRunning ==
    \A c \in DOMAIN cycles :
        cycles[c].status = "running" =>
            \E p \in Procs : /\ task[p].cycle_id = c
                             /\ task[p].pc \notin {"idle", "returned", "raised"}

\* C3: a review whose fetch returns no issue leaves its try block at once:
\* it never reaches the template, the analysis or a patch attempt, its
\* cycle is completed with 0 issues and 0 improvements, and no document
\* commit and no revision row carries its cycle.
C3_EmptyFetchCompletes ==
    \A p \in Procs : task[p].kind = "review" =>
        /\ task[p].pc \notin {"fetch", "raised", "returned"} => task[p].issues # <<>>
        /\ (task[p].pc = "returned" /\ task[p].issues = <<>>) =>
              /\ cycles[task[p].cycle_id].status = "completed"
              /\ cycles[task[p].cycle_id].issues_analyzed_count = 0
              /\ cycles[task[p].cycle_id].improvements_applied_count = 0
              /\ cycles[task[p].cycle_id].analysis_result = "No issues found"
              /\ task[p].revisions = <<>>
              /\ \A r \in DOMAIN revisions :
                    revisions[r].review_cycle_id # task[p].cycle_id
              /\ \A a \in AgentNames : task[p].cycle_id \notin Range(docs[a])

\* C3 witness: a review has returned from an empty fetch.
C3_Witness ==
    \E p \in Procs : /\ task[p].kind = "review" /\ task[p].pc = "returned"
                     /\ task[p].issues = <<>>

\* C4: when the fetch, the context building, the template load or the
\* analysis call raises, the
\* cycle is failed with the text of the error and without counts, the
\* synchronous endpoint answers 500 with that text, the background task
\* swallows it, and the cycle is not completed.
C4_FailureMarksCycleFailed ==
    \A p \in Procs : (task[p].kind = "review" /\ task[p].pc = "raised") =>
        /\ task[p].error \in {"fetch failed", "context failed",
                              "Prompt Improver prompt not found", "analysis failed",
                              "ANTHROPIC_API_KEY not configured"}
        /\ cycles[task[p].cycle_id].status = "failed"
        /\ cycles[task[p].cycle_id].error_message = task[p].error
        /\ cycles[task[p].cycle_id].issues_analyzed_count = NullCount
        /\ cycles[task[p].cycle_id].improvements_applied_count = NullCount
        /\ trigger_qa_review_sync(task[p]) = [status |-> "500", detail |-> task[p].error]
        /\ _run_review_safe(task[p]).detail = NULL

\* C4 witness: the analysis call of a review has raised.
C4_Witness ==
    \E p \in Procs : /\ task[p].kind = "review" /\ task[p].pc = "raised"
                     /\ task[p].error = "analysis failed"
                     /\ task[p].issues # <<>>

\* C5: no cycle records more improvements than the budget, no cycle has
\* more revision rows than the budget, and no review under way has
\* applied more.
C5_BudgetRespected ==
    /\ \A c \in DOMAIN cycles :
          /\ cycles[c].improvements_applied_count <= qa_review_max_improvements
          /\ Cardinality({r \in DOMAIN revisions : revisions[r].review_cycle_id = c})
                <= qa_review_max_improvements
    /\ \A p \in Procs : /\ task[p].improvements_applied <= qa_review_max_improvements
                        /\ Len(task[p].revisions) <= qa_review_max_improvements

\* C5 witness: a review with four candidates has stopped at the fourth
\* with the budget used up.
C5_Witness ==
    \E p \in Procs : /\ task[p].kind = "review" /\ task[p].pc = "returned"
                     /\ Len(task[p].agents) = 4 /\ task[p].idx = 4
                     /\ task[p].improvements_applied = qa_review_max_improvements
                     /\ cycles[task[p].cycle_id].improvements_applied_count
                           = qa_review_max_improvements

\* C6: operations run one after the other never leave two live revisions
\* of the same tenant and agent created within one cooldown window.
C6_NoTwoLiveRevisionsInWindow ==
    \A r1, r2 \in DOMAIN revisions :
        (/\ r1 < r2
         /\ revisions[r1].tenant_id = revisions[r2].tenant_id
         /\ revisions[r1].agent_name = revisions[r2].agent_name
         /\ ~revisions[r1].is_rolled_back /\ ~revisions[r2].is_rolled_back)
        => revisions[r2].created_at - revisions[r1].created_at > qa_review_cooldown_hours

\* C7: a candidate with a live revision inside the window is passed over:
\* the step of the review moves to the next candidate, starts no attempt,
\* and changes neither the budget, the tables nor the documents.
C7_CooldownSkips ==
    [][\A p \in Procs :
          (/\ GateOpen(p)
           /\ LiveInWindow(task[p].tenant_id, task[p].agents[task[p].idx])
           /\ task'[p] # task[p])
          => /\ task'[p].pc = "gate"
             /\ task'[p].idx = task[p].idx + 1
             /\ task'[p].improvements_applied = task[p].improvements_applied
             /\ task'[p].revisions = task[p].revisions
             /\ UNCHANGED <<issues, cycles, revisions, docs>>]_vars

\* C7 witness: the first candidate was on cooldown, the review has moved
\* to the second with nothing applied.
C7_Witness ==
    \E p \in Procs : /\ task[p].kind = "review" /\ task[p].pc = "gate"
                     /\ task[p].idx = 2
                     /\ LiveInWindow(task[p].tenant_id, task[p].agents[1])
                     /\ Qualifies(IdsOfAgent(task[p].issues, task[p].agents[1]))
                     /\ task[p].improvements_applied = 0

\* C8 as stated: no operation starts a patch attempt for an agent whose
\* issues are below the minimum and hold no hallucination and no critical
\* issue.
C8_NoAttemptBelowMinimum ==
    [][\A p \in Procs :
          AttemptBegins(p)
          => Qualifies(Range(task'[p].agent_issues))]_vars

\* C8: in a review no patch attempt starts for a candidate whose issues
\* in the cycle are below the minimum and hold no hallucination and no
\* critical issue.
C8_NoAttemptBelowMinimumInReview ==
    [][\A p \in Procs :
          (AttemptBegins(p) /\ task'[p].kind = "review")
          => /\ Qualifies(IdsOfAgent(task[p].issues, task'[p].agent_name))
             /\ Range(task'[p].agent_issues)
                   = IdsOfAgent(task[p].issues, task'[p].agent_name)]_vars

\* C8 witness: the previous candidate of a review, off cooldown, was
\* passed over for its issues.
C8_Witness ==
    \E p \in Procs : /\ task[p].kind = "review" /\ task[p].pc = "gate"
                     /\ task[p].idx > 1
                     /\ task[p].improvements_applied < qa_review_max_improvements
                     /\ ~LiveInWindow(task[p].tenant_id, task[p].agents[task[p].idx - 1])
                     /\ ~Qualifies(IdsOfAgent(task[p].issues,
                                              task[p].agents[task[p].idx - 1]))

\* C9: a candidate off cooldown, with budget left, one of whose issues is
\* a hallucination or is critical, gets its patch attempt whatever the
\* number of its issues.
C9_CriticalOverride ==
    [][\A p \in Procs :
          (/\ GateOpen(p)
           /\ ~LiveInWindow(task[p].tenant_id, task[p].agents[task[p].idx])
           /\ AnyCritical(IdsOfAgent(task[p].issues, task[p].agents[task[p].idx]))
           /\ task'[p] # task[p])
          => /\ task'[p].pc = "get_prompt"
             /\ task'[p].agent_name = task[p].agents[task[p].idx]]_vars

\* C9 witness: an attempt has started for a candidate with a single issue,
\* critical and not a hallucination.
C9_Witness ==
    \E p \in Procs :
        /\ task[p].kind = "review" /\ task[p].pc = "get_prompt"
        /\ Len(task[p].agent_issues) = 1
        /\ Len(task[p].agent_issues) < qa_review_min_issues
        /\ issues[task[p].agent_issues[1]].severity = "critical"
        /\ issues[task[p].agent_issues[1]].issue_category # "hallucination"

\* C10: a patch response cut at the token limit is given up: no document
\* commit, no revision row, no step towards either; a review goes on to
\* its next candidate with the same budget and its cycle still running,
\* and as no review raises once it has candidates, the cycle completes.
C10_TruncatedResponseDiscarded ==
    /\ [][\A p \in Procs :
            (/\ task[p].pc = "parse"
             /\ task[p].response.stop_reason = "max_tokens"
             /\ task'[p] # task[p])
            => /\ UNCHANGED <<docs, revisions>>
               /\ task'[p].pc \notin {"update_prompt", "insert"}
               /\ task'[p].revisions = task[p].revisions
               /\ task[p].kind = "review" =>
                     /\ task'[p].pc = "gate"
                     /\ task'[p].idx = task[p].idx + 1
                     /\ task'[p].improvements_applied = task[p].improvements_applied
                     /\ cycles'[task[p].cycle_id].status = "running"]_vars
    /\ [](\A p \in Procs :
            /\ (task[p].kind = "review" /\ task[p].pc = "raised")
                  => task[p].agents = <<>>
            /\ (task[p].kind = "review" /\ task[p].pc = "returned")
                  => cycles[task[p].cycle_id].status = "completed")

\* C10 witness: the patch call of a review has returned a response that
\* is cut at the token limit and would otherwise be accepted.
C10_Witness ==
    \E p \in Procs :
        /\ task[p].kind = "review" /\ task[p].pc = "parse"
        /\ task[p].response.stop_reason = "max_tokens"
        /\ ImprovedPromptOf_NoStopReason(task[p].response) # <<>>

\* The response is complete and asks for no usable modification: it has no
\* should_modify tag, or a should_modify other than true, or no replacement
\* text.
Declines(response) ==
    /\ response.stop_reason # "max_tokens"
    /\ \/ response.should_modify = NoTag
       \/ strip(response.should_modify) \notin {<<"true">>, <<"True">>}
       \/ response.improved_prompt = NoTag
       \/ \A k \in DOMAIN response.improved_prompt : response.improved_prompt[k] = " "

\* The revision rows of a cycle.
RevisionsOfCycle(cycle_id) ==
    {r \in DOMAIN revisions : revisions[r].review_cycle_id = cycle_id}

\* The review of slot p goes on to its next candidate with its budget and
\* its cycle as they were.
GoesOn(p) ==
    /\ task'[p].pc = "gate"
    /\ task'[p].idx = task[p].idx + 1
    /\ task'[p].improvements_applied = task[p].improvements_applied
    /\ task'[p].revisions = task[p].revisions
    /\ task'[p].error = NULL
    /\ cycles'[task[p].cycle_id].status = "running"

\* C11: a complete patch response without should_modify tag, with a
\* should_modify other than true, or with an empty replacement text leads
\* to no document commit and no revision row and is no error: the attempt
\* ends without an exception and a review goes on to its next candidate.
C11_DeclinedResponseIsNoError ==
    [][\A p \in Procs :
          (/\ task[p].pc = "parse"
           /\ Declines(task[p].response)
           /\ task'[p] # task[p])
          => /\ UNCHANGED <<docs, revisions>>
             /\ task'[p].pc \in {"gate", "returned"}
             /\ task'[p].error = NULL
             /\ task[p].kind = "review" => GoesOn(p)]_vars

\* C11 witness: the patch call of a review has returned a complete
\* response whose should_modify is false.
C11_Witness ==
    \E p \in Procs :
        /\ task[p].kind = "review" /\ task[p].pc = "parse"
        /\ task[p].response.stop_reason = "end_turn"
        /\ task[p].response.should_modify = <<"false">>

\* C12: when the document write of an attempt fails, the attempt stores no
\* revision row and yields no revision, and a review goes on to its next
\* candidate with its cycle still running.
C12_FailedWriteLeavesNoRevision ==
    [][\A p \in Procs :
          (/\ task[p].pc = "update_prompt"
           /\ docs' = docs
           /\ task'[p] # task[p])
          => /\ revisions' = revisions
             /\ task'[p].pc \in {"gate", "returned"}
             /\ task'[p].revisions = task[p].revisions
             /\ task[p].kind = "review" => GoesOn(p)]_vars

\* C12 witness: a fix whose response was accepted has returned without a
\* commit of its cycle and without a revision: its document write failed.
C12_Witness ==
    \E p \in Procs :
        /\ task[p].kind = "fix" /\ task[p].pc = "returned"
        /\ task[p].improved_prompt # <<>>
        /\ task[p].error = NULL
        /\ task[p].cycle_id \notin Range(docs[task[p].agent_name])
        /\ RevisionsOfCycle(task[p].cycle_id) = {}

\* C13: in a review the budget counter is the number of revisions the
\* cycle has created, whatever the number of attempts, and the candidate
\* loop ends only when the candidates or the budget are used up.
C13_OnlyRevisionsCount ==
    \A p \in Procs : (task[p].kind = "review" /\ task[p].agents # <<>>) =>
        /\ task[p].improvements_applied = Len(task[p].revisions)
        /\ task[p].improvements_applied = Cardinality(RevisionsOfCycle(task[p].cycle_id))
        /\ task[p].pc # "raised"
        /\ task[p].pc = "returned" =>
              \/ task[p].idx > Len(task[p].agents)
              \/ task[p].improvements_applied >= qa_review_max_improvements

\* C13 witness: a review has made four attempts, more than the budget, of
\* which three gave a revision: all four candidates qualified and none was
\* on cooldown, and the loop has run to its end.
C13_Witness ==
    \E p \in Procs :
        /\ task[p].kind = "review" /\ task[p].pc = "returned"
        /\ Len(task[p].agents) > qa_review_max_improvements
        /\ task[p].idx = Len(task[p].agents) + 1
        /\ task[p].improvements_applied = qa_review_max_improvements
        /\ \A k \in DOMAIN task[p].agents :
              Qualifies(IdsOfAgent(task[p].issues, task[p].agents[k]))
        /\ \A r \in DOMAIN revisions :
              \/ revisions[r].review_cycle_id = task[p].cycle_id
              \/ revisions[r].tenant_id # task[p].tenant_id
              \/ revisions[r].is_rolled_back
              \/ now - revisions[r].created_at > qa_review_cooldown_hours

\* C15: an issue is resolved only with a revision behind it: the fix that
\* resolved it has committed the document and has stored the revision row
\* that addresses that issue.
C15_ResolvedOnlyAfterRevision ==
    \A i \in DOMAIN issues : issues[i].is_resolved =>
        /\ issues[i].fix_result \in DOMAIN revisions
        /\ revisions[issues[i].fix_result].issues_addressed = <<i>>
        /\ revisions[issues[i].fix_result].agent_name = issues[i].agent_name
        /\ revisions[issues[i].fix_result].review_cycle_id
              \in Range(docs[issues[i].agent_name])
        /\ cycles[revisions[issues[i].fix_result].review_cycle_id].triggered_by
              = "admin-fix"

\* C15 witness: a fix has returned with its issue resolved.
C15_Witness ==
    \E p \in Procs :
        /\ task[p].kind = "fix" /\ task[p].pc = "returned"
        /\ task[p].issue_id \in DOMAIN issues
        /\ issues[task[p].issue_id].is_resolved
        /\ issues[task[p].issue_id].fix_status = "completed"

\* A fix has ended on an issue that exists and has no agent name.
FixEndedWithoutAgent(p) ==
    /\ task[p].kind = "fix" /\ task[p].pc \in {"returned", "raised"}
    /\ task[p].issue_id \in DOMAIN issues
    /\ issues[task[p].issue_id].agent_name = NULL

FixEndedWithoutChange(p) ==
    /\ task[p].kind = "fix" /\ task[p].pc \in {"returned", "raised"}
    /\ task[p].cycle_id # NoId
    /\ task[p].revisions = <<>>
    /\ task[p].error = NULL

WithIssues(ids) ==
    {a \in known_agents : \E i \in Range(ids) : issues[i].agent_name = a}

\* The agents of S whose lower-cased name is part of a word of the
\* lower-cased proposal text.
NamedIn(S, proposals) ==
    {a \in S : \E k \in DOMAIN proposals : IsSubstring(lower(a), lower(proposals[k]))}

\* The candidate set as the selector is described.
ExpectedCandidates(proposals, ids) ==
    IF NamedIn(WithIssues(ids), proposals) # {}
    THEN NamedIn(WithIssues(ids), proposals)
    ELSE WithIssues(ids)

\* A review has computed its candidates from a proposal text.
Selected(p) == task[p].kind = "review" /\ task[p].proposals # <<>>

\* C14 as stated: the candidates are the agents with issues that the
\* proposal text names, or all agents with issues when it names none, and
\* there is a candidate whenever the cycle has an issue.
C14_CandidatesNeverEmpty ==
    \A p \in Procs : Selected(p) =>
        /\ Range(task[p].agents) = ExpectedCandidates(task[p].proposals, task[p].issues)
        /\ task[p].issues # <<>> => task[p].agents # <<>>

\* C14: the candidates are the known agents with issues that the proposal
\* text names, or all known agents with issues when it names none, each
\* once; there is a candidate whenever an issue of the cycle belongs to a
\* known agent, and none otherwise.
C14_CandidatesOfKnownAgents ==
    \A p \in Procs : Selected(p) =>
        /\ Range(task[p].agents) = ExpectedCandidates(task[p].proposals, task[p].issues)
        /\ Cardinality(Range(task[p].agents)) = Len(task[p].agents)
        /\ task[p].agents # <<>> <=> WithIssues(task[p].issues) # {}

\* C14 witness: the proposal text names no agent with issues and the
\* candidates are the two or more agents that have issues.
C14_Witness ==
    \E p \in Procs :
        /\ Selected(p)
        /\ NamedIn(WithIssues(task[p].issues), task[p].proposals) = {}
        /\ Len(task[p].agents) >= 2

\* C20: a review whose generation capability is not configured touches
\* no state: it holds no cycle row and has read no issue.
C20_NoKeyTouchesNoState ==
    \A p \in Procs :
        (task[p].kind = "review" /\ task[p].anthropic_api_key = "") =>
            /\ task[p].cycle_id \notin DOMAIN cycles
            /\ task[p].issues = <<>>

\* The slot holds the background task of a review of all tenants.
ReviewAllRun(p) == task[p].caller = "_run_review_all_safe"

\* The number of run_review calls of the background task that have ended.
Ended(p) == IF task[p].kind = "review" THEN task[p].i - 1 ELSE task[p].i

\* C18: a review of all tenants calls run_review once per fetched tenant,
\* in the fetched order, one call after the other: the k-th cycle row the
\* run has created is that of the k-th tenant, every call but the one
\* under way has ended and is logged with its own outcome, failed or
\* completed, no two cycles of the run are running, and the run ends only
\* when every tenant has had its call.
C18_ReviewAllOneByOne ==
    \A p \in Procs : ReviewAllRun(p) =>
        /\ task[p].i \in 0..Len(task[p].tenant_ids)
        /\ Len(cycles) = task[p].cycles_before + task[p].i
        /\ \A k \in 1..task[p].i :
              cycles[task[p].cycles_before + k].tenant_id = task[p].tenant_ids[k]
        /\ Len(task[p].log) = Ended(p)
        /\ \A k \in 1..Ended(p) :
              /\ task[p].log[k].tenant_id = task[p].tenant_ids[k]
              /\ task[p].log[k].cycle_id = task[p].cycles_before + k
              /\ cycles[task[p].cycles_before + k].status
                    = task[p].log[k].outcome
        /\ \A c \in DOMAIN cycles :
              cycles[c].status = "running" =>
                  task[p].kind = "review" /\ c = task[p].cycle_id
        /\ task[p].pc = "done" => Len(task[p].log) = Len(task[p].tenant_ids)

\* C18 witness: a review of two tenants is over; the review of the first
\* raised and the review of the second completed.
C18_Witness ==
    \E p \in Procs :
        /\ ReviewAllRun(p) /\ task[p].pc = "done"
        /\ Len(task[p].log) = 2
        /\ task[p].log[1].outcome = "failed"
        /\ task[p].log[2].outcome = "completed"

\* C19 as stated: no request to an asynchronous trigger endpoint is
\* answered with a failure.
C19_NoFailureInResponse ==
    \A p \in Procs : task[p].reply # NULL => task[p].reply # "500"

\* C19: an asynchronous trigger endpoint answers with a failure only when
\* it could not fetch the tenants, and then nothing is queued and no cycle
\* exists for the request.  Otherwise it has acknowledged before its
\* pipeline has created a cycle, and a failure of the pipeline changes
\* neither the response nor the course of the background task: it is to
\* be seen in the failed cycle row only.
C19_PipelineFailureNotSurfaced ==
    \A p \in Procs : task[p].reply # NULL =>
        /\ task[p].reply = "500" =>
              /\ task[p].caller = NULL /\ task[p].kind = "request"
              /\ task[p].cycle_id = NoId
        /\ task[p].caller # NULL =>
              /\ task[p].reply = "started"
              /\ task[p].i = 0 => Len(cycles) = task[p].cycles_before
              /\ task[p].kind = "background" => task[p].error = NULL
              /\ task[p].pc = "raised" =>
                    /\ cycles[task[p].cycle_id].status = "failed"
                    /\ cycles[task[p].cycle_id].error_message = task[p].error
              /\ \A k \in DOMAIN task[p].log :
                    task[p].log[k].outcome = "failed" =>
                        /\ cycles[task[p].log[k].cycle_id].status = "failed"
                        /\ cycles[task[p].log[k].cycle_id].error_message # NULL

\* C19 witness: the background task of a single-tenant trigger is over
\* after its review raised, and the response is the acknowledgement.
C19_Witness ==
    \E p \in Procs :
        /\ task[p].caller = "_run_review_safe" /\ task[p].pc = "done"
        /\ task[p].reply = "started"
        /\ Len(task[p].log) = 1 /\ task[p].log[1].outcome = "failed"

\* The response is complete and asks for a modification with a replacement
\* text that is not empty.
CompleteModify(response) ==
    /\ response.stop_reason # "max_tokens"
    /\ response.should_modify # NoTag
    /\ strip(response.should_modify) \in {<<"true">>, <<"True">>}
    /\ response.improved_prompt # NoTag
    /\ strip(response.improved_prompt) # <<>>

\* The confidence of the response is absent or is a number.
ConfidenceReadable(response) ==
    response.confidence = NoTag \/ strip(response.confidence) = <<"0.8">>

\* The review of slot p has a single candidate.
SingleCandidate(p) == task[p].kind = "review" /\ Len(task[p].agents) = 1

\* One step of a review with a single candidate, where usable tells whether
\* the response at hand counts as asking for the modification: a candidate
\* with the minimum of issues and off cooldown gets its attempt; a usable
\* response is taken to the document write; a successful insert stores one
\* row with the candidate's name for the cycle and counts one improvement;
\* and after its only candidate the cycle is completed with the
\* improvements counted.
ScenarioAStep(p, usable) ==
    LET a == task[p].agents[1]
        c == task[p].cycle_id
    IN /\ (/\ GateOpen(p)
           /\ Cardinality(IdsOfAgent(task[p].issues, a)) >= qa_review_min_issues
           /\ ~LiveInWindow(task[p].tenant_id, a))
          => /\ task'[p].pc = "get_prompt"
             /\ task'[p].agent_name = a
       /\ (task[p].pc = "parse" /\ usable) => task'[p].pc = "update_prompt"
       /\ (task[p].pc = "update_prompt" /\ docs' # docs)
          => /\ docs' = [docs EXCEPT ![a] = Append(@, c)]
             /\ task'[p].pc = "insert"
       /\ (task[p].pc = "insert" /\ revisions' # revisions)
          => /\ Len(revisions') = Len(revisions) + 1
             /\ SubSeq(revisions', 1, Len(revisions)) = revisions
             /\ revisions'[Len(revisions')].agent_name = a
             /\ revisions'[Len(revisions')].review_cycle_id = c
             /\ task'[p].pc = "gate" /\ task'[p].idx = 2
             /\ task'[p].improvements_applied = 1
             /\ task'[p].revisions = <<Len(revisions')>>
       /\ (task[p].pc = "gate" /\ task[p].idx = 2)
          => /\ task'[p].pc = "returned"
             /\ cycles'[c].status = "completed"
             /\ cycles'[c].improvements_applied_count = task[p].improvements_applied

\* C24 as stated: in a review with a single candidate that has the minimum
\* of issues and is off cooldown, a complete response with should_modify
\* true and a replacement text leads, when write and insert succeed, to one
\* attempt, one revision of that agent and a cycle completed with 1.
C24_CompleteResponseApplied ==
    [][\A p \in Procs :
          (SingleCandidate(p) /\ task'[p] # task[p])
          => ScenarioAStep(p, CompleteModify(task[p].response))]_vars

\* C24: in a review with a single candidate that has the minimum of issues
\* and is off cooldown, a complete response with should_modify true, a
\* replacement text and a confidence that is absent or a number leads, when
\* write and insert succeed, to exactly one attempt, exactly one revision
\* row, of that agent, and a cycle completed with one improvement.
C24_ReadableResponseApplied ==
    /\ [][\A p \in Procs :
            (SingleCandidate(p) /\ task'[p] # task[p])
            => ScenarioAStep(p, /\ CompleteModify(task[p].response)
                                /\ ConfidenceReadable(task[p].response))]_vars
    /\ [](\A p \in Procs :
            (SingleCandidate(p) /\ task[p].pc = "returned" /\ task[p].revisions # <<>>)
            => /\ Len(task[p].revisions) = 1
               /\ RevisionsOfCycle(task[p].cycle_id) = {task[p].revisions[1]}
               /\ revisions[task[p].revisions[1]].agent_name = task[p].agents[1]
               /\ Len(SelectSeq(docs[task[p].agents[1]],
                                LAMBDA c : c = task[p].cycle_id)) = 1
               /\ task[p].idx = 2
               /\ cycles[task[p].cycle_id].status = "completed"
               /\ cycles[task[p].cycle_id].improvements_applied_count = 1)

\* C24 witness: a review whose single candidate has two issues, none of
\* them critical, has returned with its revision.
C24_Witness ==
    \E p \in Procs :
        /\ SingleCandidate(p) /\ task[p].pc = "returned"
        /\ Len(task[p].revisions) = 1
        /\ Cardinality(IdsOfAgent(task[p].issues, task[p].agents[1])) >= qa_review_min_issues
        /\ ~AnyCritical(IdsOfAgent(task[p].issues, task[p].agents[1]))
        /\ cycles[task[p].cycle_id].improvements_applied_count = 1

\* The columns of an issue row that describe the issue itself.
IssueContent(row) ==
    [tenant_id |-> row.tenant_id, agent_name |-> row.agent_name,
     issue_category |-> row.issue_category, severity |-> row.severity,
     created_at |-> row.created_at]

\* C25: no step of a review writes to the issue table, and no issue the
\* cycle has fetched is resolved when the review returns, also when a
\* revision of the cycle lists it as addressed; rows are never deleted, and
\* a step that changes a row is a step of a fix and changes only the
\* resolution and fix-tracking columns.
C25_ReviewLeavesIssuesAlone ==
    /\ [][/\ Len(issues') = Len(issues)
          /\ \A i \in DOMAIN issues : IssueContent(issues'[i]) = IssueContent(issues[i])
          /\ issues' # issues =>
                \E p \in Procs : task[p].kind = "fix" \/ task'[p].kind = "fix"
          /\ \A p \in Procs :
                (task[p].kind = "review" \/ task'[p].kind = "review")
                => issues' = issues]_vars
    /\ [](\A p \in Procs :
            (task[p].kind = "review" /\ task[p].pc = "returned")
            => /\ \A k \in DOMAIN task[p].issues : ~issues[task[p].issues[k]].is_resolved
               /\ \A r \in RevisionsOfCycle(task[p].cycle_id) :
                     \A k \in DOMAIN revisions[r].issues_addressed :
                        LET i == revisions[r].issues_addressed[k]
                        IN ~issues[i].is_resolved)

\* C25 witness: a review has returned with a revision that addresses two
\* issues, both still unresolved.
C25_Witness ==
    \E p \in Procs :
        /\ task[p].kind = "review" /\ task[p].pc = "returned"
        /\ \E r \in RevisionsOfCycle(task[p].cycle_id) :
              /\ Len(revisions[r].issues_addressed) = 2
              /\ \A k \in DOMAIN revisions[r].issues_addressed :
                    ~issues[revisions[r].issues_addressed[k]].is_resolved

\* The positions inside a patch attempt.
AttemptPcs == {"get_prompt", "generate", "parse", "update_prompt", "insert"}

\* C26: in a review the candidates are taken one at a time in the order of
\* the candidate list: an attempt starts from the head of the loop only,
\* for the candidate the loop stands at; while it runs, the candidate and
\* the position in the list stay; when it ends, with or without a
\* revision, the loop moves to the next candidate and never back.  As no
\* candidate is listed twice, none gets a second attempt.
C26_AttemptsOneByOne ==
    /\ [][\A p \in Procs :
            (task[p].kind = "review" /\ task'[p].kind = "review")
            => /\ task'[p].idx >= task[p].idx
               /\ AttemptBegins(p) =>
                     /\ task[p].pc = "gate"
                     /\ task'[p].idx = task[p].idx
                     /\ task'[p].agent_name = task[p].agents[task[p].idx]
               /\ (task[p].pc \in AttemptPcs /\ task'[p].pc \in AttemptPcs) =>
                     /\ task'[p].idx = task[p].idx
                     /\ task'[p].agent_name = task[p].agent_name
               /\ (task[p].pc \in AttemptPcs /\ task'[p].pc \notin AttemptPcs) =>
                     /\ task'[p].pc = "gate"
                     /\ task'[p].idx = task[p].idx + 1]_vars
    /\ [](\A p \in Procs : task[p].kind = "review" =>
            /\ Cardinality(Range(task[p].agents)) = Len(task[p].agents)
            /\ task[p].pc \in AttemptPcs =>
                  /\ task[p].idx \in DOMAIN task[p].agents
                  /\ task[p].agent_name = task[p].agents[task[p].idx]
            /\ \A r \in RevisionsOfCycle(task[p].cycle_id) :
                  \E k \in 1..(task[p].idx - 1) :
                      revisions[r].agent_name = task[p].agents[k])

\* C26 witness: the attempt for the first candidate of a review, which
\* was off cooldown and had the issues for it, has ended without a
\* revision, and the attempt for the second candidate is under way.
C26_Witness ==
    \E p \in Procs :
        /\ task[p].kind = "review" /\ task[p].pc \in AttemptPcs
        /\ task[p].idx = 2
        /\ Qualifies(IdsOfAgent(task[p].issues, task[p].agents[1]))
        /\ ~LiveInWindow(task[p].tenant_id, task[p].agents[1])
        /\ RevisionsOfCycle(task[p].cycle_id) = {}

\* The text has no word but blanks.
Blank(text) == \A k \in DOMAIN text : text[k] = " "

\* The analysis of the review has been made and has given no proposal text.
AnalysedWithoutProposals(p) ==
    /\ task[p].kind = "review" /\ task[p].issues # <<>>
    /\ task[p].pc \notin {"fetch", "load", "analyze", "raised"}
    /\ Blank(task[p].proposals)

\* C27: a review whose analysis response has no automated-fixes section,
\* or one of blanks only, makes no patch attempt and does not fail: it
\* returns with no candidate and no revision, and its cycle is completed
\* with the number of fetched issues and 0 improvements; no revision row
\* and no document commit carries the cycle.
C27_NoProposalsNoAttempt ==
    \A p \in Procs : AnalysedWithoutProposals(p) =>
        /\ task[p].pc = "returned"
        /\ task[p].agents = <<>> /\ task[p].revisions = <<>>
        /\ task[p].error = NULL
        /\ cycles[task[p].cycle_id].status = "completed"
        /\ cycles[task[p].cycle_id].issues_analyzed_count = Len(task[p].issues)
        /\ cycles[task[p].cycle_id].improvements_applied_count = 0
        /\ RevisionsOfCycle(task[p].cycle_id) = {}
        /\ \A a \in AgentNames : task[p].cycle_id \notin Range(docs[a])

\* C27 witness: a review of a tenant with a known agent among its issues
\* has returned from an analysis without proposals.
C27_Witness ==
    \E p \in Procs :
        /\ AnalysedWithoutProposals(p) /\ task[p].pc = "returned"
        /\ WithIssues(task[p].issues) # {}

\* The attempt of cycle c for agent a is still under way.
AttemptUnderWay(c, a) ==
    \E p \in Procs : /\ task[p].cycle_id = c /\ task[p].agent_name = a
                     /\ task[p].pc \in AttemptPcs

\* C28: once an attempt has ended, its cycle has replaced the agent's
\* document exactly when a revision row of the cycle for that agent
\* exists: no commit without its row, no row without its commit.
C28_WriteIffRevision ==
    \A a \in AgentNames, c \in DOMAIN cycles :
        ~AttemptUnderWay(c, a) =>
            (c \in Range(docs[a])
             <=> \E r \in RevisionsOfCycle(c) : revisions[r].agent_name = a)

\* C29: a completed cycle records as improvements the number of revision
\* rows it owns, and as issues analyzed the number of issues it has
\* processed: those fetched by a review, one for a fix.
C29_CountsMatchRows ==
    /\ \A c \in DOMAIN cycles : cycles[c].status = "completed" =>
          /\ cycles[c].improvements_applied_count = Cardinality(RevisionsOfCycle(c))
          /\ cycles[c].issues_analyzed_count >= 0
          /\ cycles[c].triggered_by = "admin-fix" => cycles[c].issues_analyzed_count = 1
    /\ \A p \in Procs :
          (task[p].cycle_id \in DOMAIN cycles /\ task[p].pc = "returned"
           /\ cycles[task[p].cycle_id].status = "completed")
          => /\ cycles[task[p].cycle_id].improvements_applied_count = Len(task[p].revisions)
             /\ Range(task[p].revisions) = RevisionsOfCycle(task[p].cycle_id)
             /\ cycles[task[p].cycle_id].issues_analyzed_count
                   = IF task[p].kind = "review" THEN Len(task[p].issues) ELSE 1

\* C29 witness: a review has completed its cycle with two revisions.
C29_Witness ==
    \E p \in Procs :
        /\ task[p].kind = "review" /\ task[p].pc = "returned"
        /\ cycles[task[p].cycle_id].status = "completed"
        /\ cycles[task[p].cycle_id].improvements_applied_count = 2
        /\ Cardinality(RevisionsOfCycle(task[p].cycle_id)) = 2
        /\ cycles[task[p].cycle_id].issues_analyzed_count > 2

\* A fix of an issue that exists has returned.
FixReturned(p) ==
    /\ task[p].kind = "fix" /\ task[p].pc = "returned"
    /\ task[p].issue_id \in DOMAIN issues

\* The fix of slot p has resolved its issue with a revision of its cycle,
\* committed to the document and stored.
ResolvedByFix(p) ==
    LET i == task[p].issue_id IN
    /\ task[p].revisions # <<>>
    /\ issues[i].is_resolved
    /\ issues[i].fix_result = task[p].revisions[1]
    /\ issues[i].fix_result \in RevisionsOfCycle(task[p].cycle_id)
    /\ task[p].cycle_id \in Range(docs[issues[i].agent_name])

\* C30 as stated: when a fix of an existing issue has returned, the fix is
\* completed or failed; completed exactly when the fix has resolved the
\* issue with a committed revision, and otherwise failed with an error
\* text that is not empty.
C30_FailedWithText ==
    \A p \in Procs : FixReturned(p) =>
        LET i == task[p].issue_id IN
        /\ issues[i].fix_status \in {"completed", "failed"}
        /\ issues[i].fix_status = "completed" <=> ResolvedByFix(p)
        /\ issues[i].fix_status = "failed" => issues[i].fix_error \notin {NULL, ""}

\* C30: when a fix of an existing issue has returned, the fix is completed
\* or failed and never in progress; completed, without error text, exactly
\* when the fix has resolved the issue with a committed revision, and
\* otherwise failed with fix_error set: to a descriptive text when the
\* agent is missing or nothing was modified, to the text of the exception,
\* which may be empty, when one was raised.
C30_CompletedOrFailed ==
    \A p \in Procs : FixReturned(p) =>
        LET i == task[p].issue_id IN
        /\ issues[i].fix_status \in {"completed", "failed"}
        /\ issues[i].fix_status = "completed" <=> ResolvedByFix(p)
        /\ issues[i].fix_status = "completed" => issues[i].fix_error = NULL
        /\ issues[i].fix_status = "failed" =>
              /\ issues[i].fix_error # NULL
              /\ task[p].error # NULL => issues[i].fix_error = task[p].error
              /\ task[p].error = NULL =>
                    issues[i].fix_error \in {"Issue has no associated agent name",
                                             "no changes needed"}

\* C30 witness: a fix has returned after the insert of its revision
\* raised: its document is committed and the fix is failed.
C30_Witness ==
    \E p \in Procs :
        /\ FixReturned(p)
        /\ task[p].error \in InsertErrors
        /\ task[p].cycle_id \in Range(docs[task[p].agent_name])
        /\ issues[task[p].issue_id].fix_status = "failed"

\* Two cycles of reviews have each a live revision of the same tenant and
\* agent, created within one cooldown window.
Collision(r1, r2) ==
    /\ r1 < r2
    /\ revisions[r1].tenant_id = revisions[r2].tenant_id
    /\ revisions[r1].agent_name = revisions[r2].agent_name
    /\ revisions[r1].review_cycle_id # revisions[r2].review_cycle_id
    /\ cycles[revisions[r1].review_cycle_id].triggered_by = "cli"
    /\ cycles[revisions[r2].review_cycle_id].triggered_by = "cli"
    /\ ~revisions[r1].is_rolled_back /\ ~revisions[r2].is_rolled_back
    /\ revisions[r2].created_at - revisions[r1].created_at <= qa_review_cooldown_hours

\* C21: the cooldown query of a review is right when it is made and is not
\* made again: while an attempt of a review is under way, every live
\* revision of its tenant and agent inside the window belongs to another
\* cycle and was inserted after the query of this attempt ran.  An attempt
\* goes on to its own insert all the same, which is how two reviews under
\* way at once both commit for one agent.
C21_CollisionsFromStaleChecks ==
    \A p \in Procs : (task[p].kind = "review" /\ task[p].pc \in AttemptPcs) =>
        \A r \in DOMAIN revisions :
            (/\ revisions[r].tenant_id = task[p].tenant_id
             /\ revisions[r].agent_name = task[p].agent_name
             /\ ~revisions[r].is_rolled_back
             /\ now - revisions[r].created_at <= qa_review_cooldown_hours)
            => /\ r > task[p].rows_seen
               /\ revisions[r].review_cycle_id # task[p].cycle_id

\* C21 witness: two reviews of one tenant, under way at the same time, have
\* both passed the cooldown query for one agent and have both inserted a
\* revision for it; both revisions are live and lie in one window.
C21_Witness ==
    \E r1, r2 \in DOMAIN revisions :
        /\ Collision(r1, r2)
        /\ \E p, q \in Procs :
              /\ p # q
              /\ task[p].kind = "review" /\ task[q].kind = "review"
              /\ task[p].tenant_id = task[q].tenant_id
              /\ task[p].cycle_id = revisions[r1].review_cycle_id
              /\ task[q].cycle_id = revisions[r2].review_cycle_id
              /\ r1 \in Range(task[p].revisions)
              /\ r2 \in Range(task[q].revisions)

ExpectedExpenseId(phone) ==
    LET c == last_call[phone] IN
    IF c.op = "set" /\ ~(time > c.at + c.ttl_seconds) THEN c.expense_id ELSE NULL

\* C23: after any sequence of set, get and clear calls, for any phone,
\* get_pending_expense_edit(phone) returns the expense id of the most
\* recent set for that phone if that entry has neither been cleared nor
\* passed its expiry time, and nothing otherwise, whatever was called for
\* other phones.
C23_GetReturnsLastSet ==
    \A phone \in Phones :
        get_pending_expense_edit(_pending_expense_edits, phone).item.expense_id
            = ExpectedExpenseId(phone)

\* C23 witness: a get has found the expired entry of one phone and removed
\* it, while the entry of another phone, set later with another expense id,
\* is returned.
C23_Witness ==
    \E phone \in Phones : \E other \in Phones \ {phone} :
        /\ last_call[phone].op = "set"
        /\ _pending_expense_edits[phone] = NoEdit
        /\ last_call[other].op = "set"
        /\ last_call[other].at > last_call[phone].at
        /\ last_call[other].expense_id # last_call[phone].expense_id
        /\ get_pending_expense_edit(_pending_expense_edits, other).item.expense_id
              = last_call[other].expense_id

====
